---- MODULE Spec2Model ----
(***************************************************************************)
(* Model of the cached file-system facade of go-irodsclient (fs/fs.go).    *)
(*                                                                         *)
(* Paths are sequences of name components: <<>> is "/", <<"a","x">> is     *)
(* "/a/x".  Every path handed to an operation is already in normal form,   *)
(* so util.GetCorrectIRODSPath leaves it as it is.                         *)
(*                                                                         *)
(* A facade method is an operator from (cache, server, inputs, fault) to   *)
(* a result record; the action of the same name applies it to the state.   *)
(* The fault f numbers the server requests of one call from 1 and makes    *)
(* request number f fail (f = 0: no request fails).                        *)
(***************************************************************************)
EXTENDS Naturals, Integers, Sequences, FiniteSets, TLC

\* ------------------------------------------------------------------ bounds
MaxOps == 3        \* facade calls in one behaviour of Spec
MaxMatch == 2      \* rows a metadata search matches
NProcs == 2        \* concurrent callers of SpecHandles
MaxHandles == 2    \* file handles created in one behaviour of SpecHandles
NCallers == 3      \* concurrent List calls of SpecList
MaxConnections == 2    \* FileSystemConfig.ConnectionMax of the modelled instance
MaxBlocks == 2    \* the blocks of an asynchronous transfer
NTransfers == 1    \* concurrent asynchronous transfers of SpecTransfer
MaxACLs == 2       \* rows of one ACL query
MaxReplicas == 2   \* replicas the server holds of one data object

\* ------------------------------------------------------------ path universe
Root == <<>>
Paths == { <<>>, <<"a">>, <<"b">>, <<"a", "x">>, <<"b", "x">> }
Targets == Paths \ {Root}
\* the order in which the server returns rows
PathOrder == << <<"a">>, <<"b">>, <<"a", "x">>, <<"b", "x">> >>

\* util.GetIRODSPathDirname / util.GetDirname
Dirname(p) == IF p = Root THEN Root ELSE SubSeq(p, 1, Len(p) - 1)
\* util.GetIRODSPathFileName
FileName(p) == IF p = Root THEN "" ELSE p[Len(p)]
\* util.MakeIRODSPath
MakeIRODSPath(dir, name) == Append(dir, name)

IsPrefix(a, b) == Len(a) <= Len(b) /\ SubSeq(b, 1, Len(a)) = a
IsUnder(a, b) == IsPrefix(a, b) /\ a # b       \* b is a proper descendant of a
Rebase(p, a, b) == b \o SubSeq(p, Len(a) + 1, Len(p))
InSeq(x, sq) == \E i \in 1..Len(sq) : sq[i] = x

\* --------------------------------------------------------------- state
VARIABLES
    srv,        \* server catalogue: path -> "None" | "Dir" | "File"
    cache,      \* FileSystemCache: one field per namespace
    invalidateParentEntryCacheImmediately,   \* FileSystemConfig flag
    nOps,       \* number of facade calls made
    last        \* the call under observation: inputs, cache before it, result,
                \* return site, connections used; a behaviour of Spec ends
                \* with the call it observes, the calls before it only leave
                \* their effects on the server and in the cache

VARIABLES
    poolConns,   \* session: established connections (idle and busy)
    poolBusy,    \* session: connections handed out and not returned
    released,    \* session: Release was called, acquires are refused
    fileHandles, \* FileSystem.fileHandles: handle id -> handle, 0 if absent
    handleState, \* per handle: "none" | "open" | "closing" | "closed"
    returned,    \* the handles a call has returned to its caller
    nextId,      \* handles are numbered in the order of their creation
    pc,          \* per caller: position in the call it is running
    call,        \* per caller: the inputs and locals of that call
    held         \* per caller: connections acquired and not yet returned

seqVars == << nOps, last >>
poolVars == << poolConns, poolBusy, released >>
handleVars == << fileHandles, handleState, returned, nextId >>
procVars == << pc, call, held >>
vars == << srv, cache, invalidateParentEntryCacheImmediately, nOps, last,
           poolConns, poolBusy, released, fileHandles, handleState, returned,
           nextId, pc, call, held >>

\* ------------------------------------------------------------- the cache
NoEntry == "NoEntry"
NilDir == [cached |-> FALSE, paths |-> <<>>]

EmptyCache ==
    [ entry |-> [p \in Paths |-> NoEntry],
      neg   |-> {},
      dir   |-> [p \in Paths |-> NilDir],
      facl  |-> {},
      dacl  |-> {},
      meta  |-> {},
      groups |-> FALSE,
      users |-> FALSE,
      groupUsers |-> {},
      userGroups |-> {} ]

HasNegativeEntryCache(c, p) == p \in c.neg
AddNegativeEntryCache(c, p) == [c EXCEPT !.neg = @ \cup {p}]
RemoveNegativeEntryCache(c, p) == [c EXCEPT !.neg = @ \ {p}]
RemoveAllNegativeEntryCacheForPath(c, p) ==
    [c EXCEPT !.neg = { q \in @ : ~IsPrefix(p, q) }]
GetEntryCache(c, p) == c.entry[p]
AddEntryCache(c, p, kind) == [c EXCEPT !.entry[p] = kind]
RemoveEntryCache(c, p) == [c EXCEPT !.entry[p] = NoEntry]
\* nil when nothing is cached: ranging over it and appending to it work as
\* for an empty list
GetDirCache(c, p) == c.dir[p]
AddDirCache(c, p, paths) == [c EXCEPT !.dir[p] = [cached |-> TRUE, paths |-> paths]]
RemoveDirCache(c, p) == [c EXCEPT !.dir[p] = NilDir]
RemoveFileACLsCache(c, p) == [c EXCEPT !.facl = @ \ {p}]
RemoveDirACLsCache(c, p) == [c EXCEPT !.dacl = @ \ {p}]
RemoveMetadataCache(c, p) == [c EXCEPT !.meta = @ \ {p}]
RemoveParentDirCache(c, p, immediately) ==
    IF immediately THEN RemoveEntryCache(c, Dirname(p)) ELSE c

\* ------------------------------------------------------------ the server
IsErr(res) == res \in {"NotFound", "ServerError"}

Children(s, p) == { q \in Targets : Dirname(q) = p /\ s[q] # "None" }
Prefixes(p) == { SubSeq(p, 1, n) : n \in 1..Len(p) }

TreeOK(s) ==
    /\ s[Root] = "Dir"
    /\ \A q \in Targets : s[q] # "None" => s[Dirname(q)] = "Dir"

\* irods_fs.GetCollection
GetCollection(s, p) == IF s[p] = "Dir" THEN "Dir" ELSE "NotFound"
\* irods_fs.GetDataObjectMasterReplica
GetDataObjectMasterReplica(s, p) == IF s[p] = "File" THEN "File" ELSE "NotFound"
\* irods_fs.ListSubCollections
ListSubCollections(s, p) ==
    SelectSeq(PathOrder, LAMBDA q : Dirname(q) = p /\ s[q] = "Dir")
\* irods_fs.ListDataObjectsMasterReplica
ListDataObjectsMasterReplica(s, p) ==
    SelectSeq(PathOrder, LAMBDA q : Dirname(q) = p /\ s[q] = "File")

\* irods_fs.CreateCollection
CreateCollection(s, p, recurse) ==
    IF recurse
    THEN IF \A q \in Prefixes(p) : s[q] \in {"None", "Dir"}
         THEN [res |-> "ok",
               s |-> [q \in Paths |-> IF q \in Prefixes(p) THEN "Dir" ELSE s[q]]]
         ELSE [res |-> "ServerError", s |-> s]
    ELSE IF p # Root /\ s[Dirname(p)] = "Dir" /\ s[p] = "None"
         THEN [res |-> "ok", s |-> [s EXCEPT ![p] = "Dir"]]
         ELSE [res |-> "ServerError", s |-> s]

\* irods_fs.DeleteCollection
DeleteCollection(s, p, recurse, force) ==
    IF s[p] = "None" THEN [res |-> "NotFound", s |-> s]
    ELSE IF p # Root /\ s[p] = "Dir" /\ (recurse \/ Children(s, p) = {})
    THEN [res |-> "ok",
          s |-> [q \in Paths |-> IF IsPrefix(p, q) THEN "None" ELSE s[q]]]
    ELSE [res |-> "ServerError", s |-> s]

\* irods_fs.DeleteDataObject
DeleteDataObject(s, p, force) ==
    IF s[p] = "None" THEN [res |-> "NotFound", s |-> s]
    ELSE IF s[p] = "File" THEN [res |-> "ok", s |-> [s EXCEPT ![p] = "None"]]
    ELSE [res |-> "ServerError", s |-> s]

\* the catalogue can hold the subtree of a at b
Movable(a, b) == \A q \in Paths : IsPrefix(a, q) => Rebase(q, a, b) \in Paths

\* irods_fs.MoveCollection
MoveCollection(s, a, b) ==
    IF s[a] = "None" THEN [res |-> "NotFound", s |-> s]
    ELSE IF /\ s[a] = "Dir" /\ a # Root /\ b # Root /\ s[b] = "None"
            /\ s[Dirname(b)] = "Dir" /\ ~IsPrefix(a, b) /\ Movable(a, b)
    THEN [res |-> "ok",
          s |-> [q \in Paths |->
                    IF IsPrefix(b, q)
                    THEN IF Rebase(q, b, a) \in Paths THEN s[Rebase(q, b, a)] ELSE "None"
                    ELSE IF IsPrefix(a, q) THEN "None"
                    ELSE s[q]]]
    ELSE [res |-> "ServerError", s |-> s]

\* irods_fs.MoveDataObject
MoveDataObject(s, a, b) ==
    IF s[a] = "None" THEN [res |-> "NotFound", s |-> s]
    ELSE IF s[a] = "File" /\ b # Root /\ s[b] = "None" /\ s[Dirname(b)] = "Dir"
    THEN [res |-> "ok", s |-> [s EXCEPT ![a] = "None", ![b] = "File"]]
    ELSE [res |-> "ServerError", s |-> s]

\* ---------------------------------------------------- results of a call
\* c, s: cache and server after the call; res: "ok", the kind of the entry
\* returned, or the error; ret: the source line of the return statement;
\* acq: connections acquired; net: server requests sent; out: entries returned
Result(c, s, res, ret, acq, net) ==
    [c |-> c, s |-> s, res |-> res, ret |-> ret, acq |-> acq, net |-> net,
     out |-> <<>>]

NoLast == [op |-> "none", path |-> Root, path2 |-> Root, flag |-> FALSE,
           pre |-> EmptyCache, res |-> "none", ret |-> 0, acq |-> 0, net |-> 0,
           out |-> <<>>]

\* ------------------------------------------------------------ the facade
\* the one element of a set; the element is worked out once
Only(S) == CHOOSE x \in S : TRUE


\* FileSystem.getCollection, from "otherwise, retrieve it and add it to cache"
getCollectionFetch(c, s, p, f) ==
    IF f = 1 THEN Result(c, s, "ServerError", 1167, 1, 1)
    ELSE IF GetCollection(s, p) = "Dir"
    THEN Result(AddEntryCache(RemoveNegativeEntryCache(c, p), p, "Dir"),
                s, "Dir", 1187, 1, 1)
    ELSE Result(c, s, "NotFound", 1167, 1, 1)

\* FileSystem.getCollection
getCollection(c, s, p, f) ==
    IF HasNegativeEntryCache(c, p) THEN Result(c, s, "NotFound", 1149, 0, 0)
    ELSE IF GetEntryCache(c, p) = "Dir" THEN Result(c, s, "Dir", 1155, 0, 0)
    ELSE getCollectionFetch(c, s, p, f)

\* FileSystem.getDataObject
getDataObject(c, s, p, f) ==
    IF HasNegativeEntryCache(c, p) THEN Result(c, s, "NotFound", 1371, 0, 0)
    ELSE IF GetEntryCache(c, p) = "File" THEN Result(c, s, "File", 1377, 0, 0)
    ELSE LET coll == getCollection(c, s, Dirname(p), f) IN
        IF coll.res # "Dir" THEN [coll EXCEPT !.ret = 1383]
        ELSE IF f - coll.net = 1
        THEN Result(coll.c, s, "ServerError", 1394, coll.acq + 1, coll.net + 1)
        ELSE IF GetDataObjectMasterReplica(s, p) = "File"
        THEN Result(AddEntryCache(RemoveNegativeEntryCache(coll.c, p), p, "File"),
                    s, "File", 1414, coll.acq + 1, coll.net + 1)
        ELSE Result(coll.c, s, "NotFound", 1394, coll.acq + 1, coll.net + 1)

\* FileSystem.StatDir
StatDir(c, s, p, f) == getCollection(c, s, p, f)
\* FileSystem.StatFile
StatFile(c, s, p, f) == getDataObject(c, s, p, f)

\* FileSystem.Stat that gives up on a missing path without remembering it
StatRetrieveForgetful(c, s, p, f) ==
    LET dirStat == StatDir(c, s, p, f) IN
    IF dirStat.res = "Dir" THEN [dirStat EXCEPT !.ret = 270]
    ELSE IF dirStat.res # "NotFound" THEN [dirStat EXCEPT !.ret = 267]
    ELSE LET fileStat == StatFile(dirStat.c, s, p, f - dirStat.net)
             acq == dirStat.acq + fileStat.acq
             net == dirStat.net + fileStat.net
         IN
        IF fileStat.res = "File"
        THEN Result(fileStat.c, s, "File", 280, acq, net)
        ELSE IF fileStat.res # "NotFound"
        THEN Result(fileStat.c, s, fileStat.res, 277, acq, net)
        ELSE Result(fileStat.c, s, "NotFound", 285, acq, net)

\* FileSystem.Stat that remembers a path as missing when the file lookup
\* fails, whatever the error
StatRetrieveRememberingErrors(c, s, p, f) ==
    LET dirStat == StatDir(c, s, p, f) IN
    IF dirStat.res = "Dir" THEN [dirStat EXCEPT !.ret = 270]
    ELSE IF dirStat.res # "NotFound" THEN [dirStat EXCEPT !.ret = 267]
    ELSE LET fileStat == StatFile(dirStat.c, s, p, f - dirStat.net)
             acq == dirStat.acq + fileStat.acq
             net == dirStat.net + fileStat.net
         IN
        IF fileStat.res = "File"
        THEN Result(fileStat.c, s, "File", 280, acq, net)
        ELSE IF fileStat.res # "NotFound"
        THEN Result(AddNegativeEntryCache(fileStat.c, p), s, fileStat.res, 277, acq, net)
        ELSE Result(AddNegativeEntryCache(fileStat.c, p), s,
                    "NotFound", 285, acq, net)

\* FileSystem.Stat, from "if cache does not have any information, check
\* dir first": StatDir, then StatFile, then the negative entry
StatRetrieve(c, s, p, f) ==
    LET dirStat == StatDir(c, s, p, f) IN
    IF dirStat.res = "Dir" THEN [dirStat EXCEPT !.ret = 270]
    ELSE IF dirStat.res # "NotFound" THEN [dirStat EXCEPT !.ret = 267]
    ELSE LET fileStat == StatFile(dirStat.c, s, p, f - dirStat.net)
             acq == dirStat.acq + fileStat.acq
             net == dirStat.net + fileStat.net
         IN
        IF fileStat.res = "File"
        THEN Result(fileStat.c, s, "File", 280, acq, net)
        ELSE IF fileStat.res # "NotFound"
        THEN Result(fileStat.c, s, fileStat.res, 277, acq, net)
        ELSE Result(AddNegativeEntryCache(fileStat.c, p), s,
                    "NotFound", 285, acq, net)

\* FileSystem.Stat that never consults the cached listing of the parent
StatIgnoringDirCache(c, s, p, f) ==
    IF HasNegativeEntryCache(c, p) THEN Result(c, s, "NotFound", 234, 0, 0)
    ELSE IF GetEntryCache(c, p) # NoEntry
    THEN Result(c, s, GetEntryCache(c, p), 240, 0, 0)
    ELSE StatRetrieve(c, s, p, f)

\* FileSystem.Stat
Stat(c, s, p, f) ==
    IF HasNegativeEntryCache(c, p) THEN Result(c, s, "NotFound", 234, 0, 0)
    ELSE IF GetEntryCache(c, p) # NoEntry
    THEN Result(c, s, GetEntryCache(c, p), 240, 0, 0)
    ELSE LET cachedDirEntryPaths == GetDirCache(c, Dirname(p)) IN
        IF cachedDirEntryPaths.cached /\ ~InSeq(p, cachedDirEntryPaths.paths)
        THEN Result(AddNegativeEntryCache(c, p), s, "NotFound", 258, 0, 0)
        ELSE StatRetrieve(c, s, p, f)

\* the paths of the entries of sq a lookup finds in the entry cache
CachedOf(c, sq) == SelectSeq(sq, LAMBDA q : GetEntryCache(c, q) # NoEntry)
Entries(c, sq) == [i \in 1..Len(sq) |-> [path |-> sq[i], kind |-> GetEntryCache(c, sq[i])]]

RECURSIVE RemoveNegativeEntries(_, _)
RemoveNegativeEntries(c, sq) ==
    IF sq = <<>> THEN c
    ELSE RemoveNegativeEntries(RemoveNegativeEntryCache(c, Head(sq)), Tail(sq))

\* the loop body over the rows sq without its RemoveNegativeEntryCache
RECURSIVE CacheRowsKeepingNegative(_, _, _)
CacheRowsKeepingNegative(c, sq, kind) ==
    IF sq = <<>> THEN c
    ELSE CacheRowsKeepingNegative(AddEntryCache(c, Head(sq), kind), Tail(sq), kind)

\* the loop body "RemoveNegativeEntryCache; AddEntryCache" over the rows sq
RECURSIVE CacheRows(_, _, _)
CacheRows(c, sq, kind) ==
    IF sq = <<>> THEN c
    ELSE CacheRows(AddEntryCache(RemoveNegativeEntryCache(c, Head(sq)), Head(sq), kind),
                   Tail(sq), kind)

\* FileSystem.listEntries that returns what the cache holds of a cached listing
UseCachedWhenListed(c, p) == GetDirCache(c, p).cached

\* FileSystem.listEntries, "check cache first"
UseCached(c, p) ==
    /\ GetDirCache(c, p).cached
    /\ Len(CachedOf(c, GetDirCache(c, p).paths)) = Len(GetDirCache(c, p).paths)

\* FileSystem.listEntries that caches the rows and keeps what it knew of them
listEntriesFetchKeepingNegative(c, s, p, f) ==
    IF f = 1 THEN Result(c, s, "ServerError", 1229, 1, 1)
    ELSE LET collections == ListSubCollections(s, p)
             c1 == [c EXCEPT !.entry = [q \in Paths |->
                        IF InSeq(q, collections) THEN "Dir" ELSE c.entry[q]]]
         IN
        IF f = 2 THEN Result(c1, s, "ServerError", 1257, 1, 2)
        ELSE LET dataobjects == ListDataObjectsMasterReplica(s, p)
                 c2 == [c1 EXCEPT !.entry = [q \in Paths |->
                            IF InSeq(q, dataobjects) THEN "File" ELSE c1.entry[q]]]
                 dirEntryPaths == collections \o dataobjects
             IN
            [Result(AddDirCache(c2, p, dirEntryPaths), s, "ok", 1294, 1, 2)
                EXCEPT !.out = Entries(c2, dirEntryPaths)]

\* FileSystem.listEntries, from "otherwise, retrieve it and add it to cache"
listEntriesFetch(c, s, p, f) ==
    IF f = 1 THEN Result(c, s, "ServerError", 1229, 1, 1)
    ELSE LET collections == ListSubCollections(s, p)
             c1 == CacheRows(c, collections, "Dir")
         IN
        IF f = 2 THEN Result(c1, s, "ServerError", 1257, 1, 2)
        ELSE LET dataobjects == ListDataObjectsMasterReplica(s, p)
                 c2 == CacheRows(c1, dataobjects, "File")
                 dirEntryPaths == collections \o dataobjects
             IN
            [Result(AddDirCache(c2, p, dirEntryPaths), s, "ok", 1294, 1, 2)
                EXCEPT !.out = Entries(c2, dirEntryPaths)]

\* FileSystem.listEntries
listEntries(c, s, p, f) ==
    LET cachedEntries == CachedOf(c, GetDirCache(c, p).paths) IN
    IF UseCached(c, p)
    THEN [Result(RemoveNegativeEntries(c, cachedEntries), s, "ok", 1217, 0, 0)
            EXCEPT !.out = Entries(c, cachedEntries)]
    ELSE listEntriesFetch(c, s, p, f)

\* FileSystem.List
List(c, s, p, f) ==
    LET collection == getCollection(c, s, p, f) IN
    IF collection.res # "Dir" THEN [collection EXCEPT !.ret = 528]
    ELSE LET r == listEntries(collection.c, s, p, f - collection.net) IN
        [r EXCEPT !.acq = @ + collection.acq, !.net = @ + collection.net]

\* FileSystem.searchEntriesByMeta; colls and objs are the rows the two
\* queries match on the server
searchEntriesByMeta(c, s, colls, objs, f) ==
    IF f = 1 THEN Result(c, s, "ServerError", 1307, 1, 1)
    ELSE LET c1 == CacheRows(c, colls, "Dir") IN
        IF f = 2 THEN Result(c1, s, "ServerError", 1335, 1, 2)
        ELSE LET c2 == CacheRows(c1, objs, "File") IN
            [Result(c2, s, "ok", 1365, 1, 2) EXCEPT !.out = Entries(c2, colls \o objs)]

\* FileSystem.SearchByMeta
SearchByMeta(c, s, colls, objs, f) == searchEntriesByMeta(c, s, colls, objs, f)

\* an update invalidation that takes the parent with it
invalidateCacheForFileUpdateWithParent(c, path) ==
    RemoveDirCache(RemoveEntryCache(RemoveEntryCache(RemoveNegativeEntryCache(c, path), path),
                                    Dirname(path)), Dirname(path))

\* FileSystem.invalidateCacheForFileUpdate
invalidateCacheForFileUpdate(c, path) ==
    RemoveEntryCache(RemoveNegativeEntryCache(c, path), path)

RECURSIVE invalidateCacheForRemoveInternal(_, _, _)
RECURSIVE RemoveInternalEach(_, _, _)
\* the loop "for _, dirEntry := range dirEntries" of the two remove functions
RemoveInternalEach(c, dirEntries, recursive) ==
    IF dirEntries = <<>> THEN c
    ELSE RemoveInternalEach(invalidateCacheForRemoveInternal(c, Head(dirEntries), recursive),
                            Tail(dirEntries), recursive)

\* FileSystem.invalidateCacheForRemoveInternal
invalidateCacheForRemoveInternal(c, path, recursive) ==
    LET entry == IF recursive THEN GetEntryCache(c, path) ELSE NoEntry
        c1 == RemoveMetadataCache(RemoveFileACLsCache(RemoveEntryCache(c, path), path), path)
        c2 == IF recursive /\ entry = "Dir"
              THEN RemoveInternalEach(c1, GetDirCache(c1, path).paths, recursive)
              ELSE c1
    IN RemoveDirACLsCache(RemoveDirCache(c2, path), path)

\* the parent's list without path
WithoutPath(sq, path) == SelectSeq(sq, LAMBDA q : q # path)

\* FileSystem.invalidateCacheForDirRemove
invalidateCacheForDirRemove(c, path, recursive, imm) ==
    LET entry == IF recursive THEN GetEntryCache(c, path) ELSE NoEntry
        c1 == RemoveMetadataCache(RemoveEntryCache(c, path), path)
        c2 == IF recursive /\ entry = "Dir"
              THEN RemoveInternalEach(c1, GetDirCache(c1, path).paths, recursive)
              ELSE c1
        c3 == RemoveDirACLsCache(RemoveDirCache(c2, path), path)
        c4 == RemoveParentDirCache(c3, path, imm)
        parentPath == Dirname(path)
        parentDirEntries == GetDirCache(c4, parentPath).paths
    IN AddDirCache(c4, parentPath, WithoutPath(parentDirEntries, path))

\* FileSystem.invalidateCacheForFileRemove
invalidateCacheForFileRemove(c, path, imm) ==
    LET c1 == RemoveMetadataCache(RemoveFileACLsCache(RemoveEntryCache(c, path), path), path)
        c2 == RemoveParentDirCache(c1, path, imm)
        parentPath == Dirname(path)
        parentDirEntries == GetDirCache(c2, parentPath).paths
    IN AddDirCache(c2, parentPath, WithoutPath(parentDirEntries, path))

\* FileSystem.invalidateCacheForDirCreate
invalidateCacheForDirCreate(c, path, imm) ==
    LET c1 == RemoveParentDirCache(RemoveNegativeEntryCache(c, path), path, imm)
        parentPath == Dirname(path)
        parentDirEntries == GetDirCache(c1, parentPath).paths
    IN AddDirCache(c1, parentPath, Append(parentDirEntries, path))

\* FileSystem.invalidateCacheForFileCreate
invalidateCacheForFileCreate(c, path, imm) ==
    LET c1 == RemoveParentDirCache(RemoveNegativeEntryCache(c, path), path, imm)
        parentPath == Dirname(path)
        parentDirEntries == GetDirCache(c1, parentPath).paths
    IN AddDirCache(c1, parentPath, Append(parentDirEntries, path))

\* FileSystem.MakeDir
MakeDir(c, s, p, recurse, imm, f) ==
    IF f = 1 THEN Result(c, s, "ServerError", 668, 1, 1)
    ELSE LET r == CreateCollection(s, p, recurse) IN
        IF r.res # "ok" THEN Result(c, s, r.res, 668, 1, 1)
        ELSE Result(AddDirCache(invalidateCacheForDirCreate(c, p, imm), p, <<>>),
                    r.s, "ok", 673, 1, 1)

\* FileSystem.RemoveDir
RemoveDir(c, s, p, recurse, force, imm, f) ==
    IF f = 1 THEN Result(c, s, "ServerError", 551, 1, 1)
    ELSE LET r == DeleteCollection(s, p, recurse, force) IN
        IF r.res # "ok" THEN Result(c, s, r.res, 551, 1, 1)
        ELSE Result(invalidateCacheForDirRemove(AddNegativeEntryCache(c, p), p, recurse, imm),
                    r.s, "ok", 556, 1, 1)

\* FileSystem.RemoveFile that keeps the metadata cached for the file
RemoveFileKeepingMetadata(c, s, p, force, imm, f) ==
    IF f = 1 THEN Result(c, s, "ServerError", 571, 1, 1)
    ELSE LET r == DeleteDataObject(s, p, force) IN
        IF r.res # "ok" THEN Result(c, s, r.res, 571, 1, 1)
        ELSE LET c1 == invalidateCacheForFileRemove(AddNegativeEntryCache(c, p), p, imm) IN
            Result([c1 EXCEPT !.meta = c.meta], r.s, "ok", 576, 1, 1)

\* FileSystem.RemoveFile
RemoveFile(c, s, p, force, imm, f) ==
    IF f = 1 THEN Result(c, s, "ServerError", 571, 1, 1)
    ELSE LET r == DeleteDataObject(s, p, force) IN
        IF r.res # "ok" THEN Result(c, s, r.res, 571, 1, 1)
        ELSE Result(invalidateCacheForFileRemove(AddNegativeEntryCache(c, p), p, imm),
                    r.s, "ok", 576, 1, 1)

\* FileSystem.RenameDirToDir
RenameDirToDir(c, s, a, b, imm, f) ==
    IF f = 1 THEN Result(c, s, "ServerError", 607, 1, 1)
    ELSE LET r == MoveCollection(s, a, b) IN
        IF r.res # "ok" THEN Result(c, s, r.res, 607, 1, 1)
        ELSE LET c1 == RemoveAllNegativeEntryCacheForPath(c, a)
                 c2 == AddNegativeEntryCache(c1, a)
                 c3 == invalidateCacheForDirRemove(c2, a, TRUE, imm)
             IN Result(invalidateCacheForDirCreate(c3, b, imm), r.s, "ok", 616, 1, 1)

\* FileSystem.RenameFileToFile
RenameFileToFile(c, s, a, b, imm, f) ==
    IF f = 1 THEN Result(c, s, "ServerError", 647, 1, 1)
    ELSE LET r == MoveDataObject(s, a, b) IN
        IF r.res # "ok" THEN Result(c, s, r.res, 647, 1, 1)
        ELSE LET c1 == AddNegativeEntryCache(c, a)
                 c2 == invalidateCacheForFileRemove(c1, a, imm)
             IN Result(invalidateCacheForFileCreate(c2, b, imm), r.s, "ok", 653, 1, 1)

\* Entry.ID of the entry a successful stat returns: the catalogue numbers its
\* objects from 1
EntryID(p) == Len(p) + 1

\* the answer of Exists, ExistsDir and ExistsFile to what the stat returned:
\* `if err != nil { return false }; return entry.ID > 0`; out: the stat's result
ExistsAnswerTakingErrorForEntry(st, p) ==
    [st EXCEPT !.res = (st.res # "NotFound" /\ EntryID(p) > 0), !.out = <<st.res>>]

ExistsAnswer(st, p) ==
    [st EXCEPT !.res = (~IsErr(st.res) /\ EntryID(p) > 0), !.out = <<st.res>>]

\* FileSystem.Exists
Exists(c, s, p, f) == Only({ ExistsAnswer(st, p) : st \in {Stat(c, s, p, f)} })

\* FileSystem.ExistsDir: res is the answer; an error of StatDir is "no"
ExistsDir(c, s, p, f) == Only({ ExistsAnswer(st, p) : st \in {StatDir(c, s, p, f)} })

\* FileSystem.ExistsFile
ExistsFile(c, s, p, f) == Only({ ExistsAnswer(st, p) : st \in {StatFile(c, s, p, f)} })

\* RenameDir, RenameFile, CopyFile: the destination the call goes on with
ResolveDest(c, s, a, b, f) ==
    LET e == ExistsDir(c, s, b, f) IN
    [e EXCEPT !.out = <<IF e.res THEN MakeIRODSPath(b, FileName(a)) ELSE b>>]

\* the call made with the resolved destination, counted with the lookup
AfterResolve(e, r) ==
    [r EXCEPT !.acq = e.acq + r.acq, !.net = e.net + r.net, !.out = e.out]

\* FileSystem.RenameDir
RenameDir(c, s, a, b, imm, f) ==
    LET e == ResolveDest(c, s, a, b, f) IN
    AfterResolve(e, RenameDirToDir(e.c, s, a, e.out[1], imm, f - e.net))

\* FileSystem.RenameFile
RenameFile(c, s, a, b, imm, f) ==
    LET e == ResolveDest(c, s, a, b, f) IN
    AfterResolve(e, RenameFileToFile(e.c, s, a, e.out[1], imm, f - e.net))

\* irods_fs.CopyDataObject
CopyDataObject(s, a, b) ==
    IF s[a] = "None" THEN [res |-> "NotFound", s |-> s]
    ELSE IF s[a] = "File" /\ b # Root /\ s[b] = "None" /\ s[Dirname(b)] = "Dir"
    THEN [res |-> "ok", s |-> [s EXCEPT ![b] = "File"]]
    ELSE [res |-> "ServerError", s |-> s]

\* FileSystem.CopyFileToFile
CopyFileToFile(c, s, a, b, imm, f) ==
    IF f = 1 THEN Result(c, s, "ServerError", 704, 1, 1)
    ELSE LET r == CopyDataObject(s, a, b) IN
        IF r.res # "ok" THEN Result(c, s, r.res, 704, 1, 1)
        ELSE Result(invalidateCacheForFileCreate(c, b, imm), r.s, "ok", 708, 1, 1)

\* FileSystem.CopyFile
CopyFile(c, s, a, b, imm, f) ==
    LET e == ResolveDest(c, s, a, b, f) IN
    AfterResolve(e, CopyFileToFile(e.c, s, a, e.out[1], imm, f - e.net))

\* ------------------------------------------- ACLs, metadata, file updates
\* FileSystemCache: the ACL and metadata namespaces hold a list per key
GetFileACLsCache(c, p) == p \in c.facl
AddFileACLsCache(c, p) == [c EXCEPT !.facl = @ \cup {p}]
GetDirACLsCache(c, p) == p \in c.dacl
AddDirACLsCache(c, p) == [c EXCEPT !.dacl = @ \cup {p}]
GetMetadataCache(c, p) == p \in c.meta
AddMetadataCache(c, p) == [c EXCEPT !.meta = @ \cup {p}]

\* the kind of the object the catalogue holds under a path
KindAt(s, p) == IF p \in Paths THEN s[p] ELSE "None"

\* irods_fs.ListCollectionAccess, ListCollectionMeta
CollectionQuery(s, p) == IF KindAt(s, p) = "Dir" THEN "ok" ELSE "NotFound"
\* irods_fs.ListDataObjectAccess, ListDataObjectMeta, TruncateDataObject,
\* ReplicateDataObject
DataObjectQuery(s, p) == IF KindAt(s, p) = "File" THEN "ok" ELSE "NotFound"

\* util.GetCorrectIRODSPath: empty components are dropped, ".." steps up
RECURSIVE Clean(_, _)
Clean(raw, acc) ==
    IF raw = <<>> THEN acc
    ELSE Clean(Tail(raw),
               IF Head(raw) = "" THEN acc
               ELSE IF Head(raw) = ".."
               THEN (IF acc = <<>> THEN acc ELSE SubSeq(acc, 1, Len(acc) - 1))
               ELSE Append(acc, Head(raw)))
GetCorrectIRODSPath(raw) == Clean(raw, <<>>)

\* FileSystem.ListDirACLs
ListDirACLs(c, s, p, f) ==
    IF GetDirACLsCache(c, p) THEN Result(c, s, "ok", 381, 0, 0)
    ELSE IF f = 1 THEN Result(c, s, "ServerError", 393, 1, 1)
    ELSE IF CollectionQuery(s, p) # "ok" THEN Result(c, s, CollectionQuery(s, p), 393, 1, 1)
    ELSE Result(AddDirACLsCache(c, p), s, "ok", 399, 1, 1)

\* FileSystem.ListFileACLs, from "otherwise, retrieve it and add it to cache"
ListFileACLsRetrieve(c, s, p, f) ==
    LET collection == getCollection(c, s, Dirname(p), f)
         acq == 1 + collection.acq
         net == collection.net + 1
     IN
    IF collection.res # "Dir"
    THEN Result(collection.c, s, collection.res, 465, acq, collection.net)
    ELSE IF f = net THEN Result(collection.c, s, "ServerError", 470, acq, net)
    ELSE IF DataObjectQuery(s, p) # "ok"
    THEN Result(collection.c, s, DataObjectQuery(s, p), 470, acq, net)
    ELSE Result(AddFileACLsCache(collection.c, p), s, "ok", 476, acq, net)

\* FileSystem.ListFileACLs
ListFileACLs(c, s, p, f) ==
    IF GetFileACLsCache(c, p) THEN Result(c, s, "ok", 453, 0, 0)
    ELSE ListFileACLsRetrieve(c, s, p, f)

\* FileSystem.ListMetadata, from "otherwise, retrieve it and add it to cache"
ListMetadataRetrieve(c, s, path, f) ==
    LET irodsCorrectPath == GetCorrectIRODSPath(path)
         e == ExistsDir(c, s, irodsCorrectPath, f)
     IN
    IF e.res
    THEN IF f = e.net + 1
         THEN Result(e.c, s, "ServerError", 1442, 1 + e.acq, e.net + 1)
         ELSE IF CollectionQuery(s, irodsCorrectPath) # "ok"
         THEN Result(e.c, s, "NotFound", 1442, 1 + e.acq, e.net + 1)
         ELSE Result(AddMetadataCache(e.c, irodsCorrectPath), s, "ok", 1458,
                     1 + e.acq, e.net + 1)
    ELSE LET collection == getCollection(e.c, s, Dirname(path), f - e.net)
             acq == 1 + e.acq + collection.acq
             net == e.net + collection.net + 1
             object == MakeIRODSPath(Dirname(path), FileName(irodsCorrectPath))
         IN
        IF collection.res # "Dir"
        THEN Result(collection.c, s, collection.res, 1447, acq, net - 1)
        ELSE IF f = net THEN Result(collection.c, s, "ServerError", 1451, acq, net)
        ELSE IF DataObjectQuery(s, object) # "ok"
        THEN Result(collection.c, s, "NotFound", 1451, acq, net)
        ELSE Result(AddMetadataCache(collection.c, irodsCorrectPath), s, "ok", 1458,
                    acq, net)

\* FileSystem.ListMetadata: the cache is asked with the path as given
ListMetadata(c, s, path, f) ==
    IF GetMetadataCache(c, path) THEN Result(c, s, "ok", 1425, 0, 0)
    ELSE ListMetadataRetrieve(c, s, path, f)

\* FileSystem.TruncateFile, the size handed to irods_fs.TruncateDataObject
TruncateSizeUnclamped(size) == size
TruncateSize(size) == IF size < 0 THEN 0 ELSE size

\* FileSystem.TruncateFile; out is the size the request carries
TruncateFile(c, s, p, size, f) ==
    [ (IF f = 1 THEN Result(c, s, "ServerError", 727, 1, 1)
       ELSE IF DataObjectQuery(s, p) # "ok" THEN Result(c, s, DataObjectQuery(s, p), 727, 1, 1)
       ELSE Result(invalidateCacheForFileUpdate(c, p), s, "ok", 731, 1, 1))
      EXCEPT !.out = <<TruncateSize(size)>> ]

\* FileSystem.ReplicateFile
ReplicateFile(c, s, p, f) ==
    IF f = 1 THEN Result(c, s, "ServerError", 746, 1, 1)
    ELSE IF DataObjectQuery(s, p) # "ok" THEN Result(c, s, DataObjectQuery(s, p), 746, 1, 1)
    ELSE Result(invalidateCacheForFileUpdate(c, p), s, "ok", 750, 1, 1)

\* ------------------------------------------------------------- actions
imm == invalidateParentEntryCacheImmediately

\* the rows a metadata query matches: any MaxMatch existing paths
Matches(s) == { m \in SUBSET { q \in Targets : s[q] # "None" } : Cardinality(m) <= MaxMatch }
RowsOf(s, m, kind) == SelectSeq(PathOrder, LAMBDA q : q \in m /\ s[q] = kind)

\* the requests of one call that can be made to fail
Faults(r) == 0..r.net

\* a call can be made: the budget is not used up and no call was observed yet
CanCall == nOps < MaxOps /\ last.op = "none"

Record(op, p, p2, flag, result, observe) ==
    \E r \in {result} :
        /\ nOps' = nOps + 1
        /\ cache' = r.c
        /\ srv' = r.s
        /\ last' = IF observe
                   THEN [op |-> op, path |-> p, path2 |-> p2, flag |-> flag,
                         pre |-> cache, res |-> r.res, ret |-> r.ret,
                         acq |-> r.acq, net |-> r.net, out |-> r.out]
                   ELSE last
        /\ UNCHANGED << invalidateParentEntryCacheImmediately, poolVars,
                        handleVars, procVars >>

DoStat ==
    /\ CanCall
    /\ \E p \in Targets, observe \in BOOLEAN :
           \E f \in Faults(Stat(cache, srv, p, 0)) :
               Record("Stat", p, Root, FALSE, Stat(cache, srv, p, f), observe)

DoList ==
    /\ CanCall
    /\ \E p \in Paths, observe \in BOOLEAN :
           \E f \in Faults(List(cache, srv, p, 0)) :
               Record("List", p, Root, FALSE, List(cache, srv, p, f), observe)

DoSearchByMeta ==
    /\ CanCall
    /\ \E m \in Matches(srv), f \in 0..2, observe \in BOOLEAN :
           Record("SearchByMeta", Root, Root, FALSE,
                  SearchByMeta(cache, srv, RowsOf(srv, m, "Dir"), RowsOf(srv, m, "File"), f),
                  observe)

DoMakeDir ==
    /\ CanCall
    /\ \E p \in Targets, recurse \in BOOLEAN, f \in 0..1, observe \in BOOLEAN :
           Record("MakeDir", p, Root, recurse, MakeDir(cache, srv, p, recurse, imm, f), observe)

DoRemoveDir ==
    /\ CanCall
    /\ \E p \in Targets, recurse \in BOOLEAN, f \in 0..1, observe \in BOOLEAN :
           Record("RemoveDir", p, Root, recurse,
                  RemoveDir(cache, srv, p, recurse, FALSE, imm, f), observe)

DoRemoveFile ==
    /\ CanCall
    /\ \E p \in Targets, f \in 0..1, observe \in BOOLEAN :
           Record("RemoveFile", p, Root, FALSE, RemoveFile(cache, srv, p, FALSE, imm, f), observe)

DoRenameDirToDir ==
    /\ CanCall
    /\ \E a \in Targets, b \in Targets, f \in 0..1, observe \in BOOLEAN :
           Record("RenameDirToDir", a, b, FALSE, RenameDirToDir(cache, srv, a, b, imm, f), observe)

DoRenameFileToFile ==
    /\ CanCall
    /\ \E a \in Targets, b \in Targets, f \in 0..1, observe \in BOOLEAN :
           Record("RenameFileToFile", a, b, FALSE, RenameFileToFile(cache, srv, a, b, imm, f), observe)

\* TTL expiry of one cached key
Expire ==
    /\ CanCall
    /\ \E p \in Paths :
           \E c \in { RemoveEntryCache(cache, p), RemoveNegativeEntryCache(cache, p),
                      RemoveDirCache(cache, p) } :
               /\ c # cache
               /\ Record("Expire", p, Root, FALSE, Result(c, srv, "ok", 0, 0, 0), FALSE)

\* ---------------------------------- renames and copies with a destination
\* the destination the call resolves to is a path of the catalogue
Resolvable(a, b) == \A f \in 0..1 : ResolveDest(cache, srv, a, b, f).out[1] \in Paths

DoRenameDir ==
    /\ CanCall
    /\ \E a \in Targets, b \in Paths, f \in 0..2, observe \in BOOLEAN :
        /\ Resolvable(a, b)
        /\ Record("RenameDir", a, b, FALSE, RenameDir(cache, srv, a, b, imm, f), observe)

DoRenameFile ==
    /\ CanCall
    /\ \E a \in Targets, b \in Paths, f \in 0..2, observe \in BOOLEAN :
        /\ Resolvable(a, b)
        /\ Record("RenameFile", a, b, FALSE, RenameFile(cache, srv, a, b, imm, f), observe)

DoCopyFile ==
    /\ CanCall
    /\ \E a \in Targets, b \in Paths, f \in 0..2, observe \in BOOLEAN :
        /\ Resolvable(a, b)
        /\ Record("CopyFile", a, b, FALSE, CopyFile(cache, srv, a, b, imm, f), observe)

DoCopyFileToFile ==
    /\ CanCall
    /\ \E a \in Targets, b \in Targets, f \in 0..1, observe \in BOOLEAN :
           Record("CopyFileToFile", a, b, FALSE, CopyFileToFile(cache, srv, a, b, imm, f), observe)

\* the observed call renamed a to b, b did not exist: the caller renames b
\* back to a and the pair of calls is what is observed
DoRenameBack ==
    /\ last.op \in {"RenameDir", "RenameFile"}
    /\ last.res = "ok"
    /\ last.out = <<last.path2>>
    /\ \E f \in 0..2 :
        \E r \in {IF last.op = "RenameDir"
                  THEN RenameDir(cache, srv, last.path2, last.path, imm, f)
                  ELSE RenameFile(cache, srv, last.path2, last.path, imm, f)} :
            /\ nOps' = nOps + 1
            /\ cache' = r.c
            /\ srv' = r.s
            /\ last' = [last EXCEPT !.op = "RenameRoundTrip", !.flag = (last.op = "RenameDir"),
                                    !.res = r.res, !.ret = r.ret, !.acq = r.acq,
                                    !.net = r.net, !.out = r.out]
            /\ UNCHANGED << invalidateParentEntryCacheImmediately, poolVars,
                            handleVars, procVars >>

\* --------------------------------------- ACLs, metadata, updates: actions
\* two spellings of a path: as it is and with a trailing slash
Spellings(p) == {p, Append(p, "")}
AllSpellings == UNION { Spellings(p) : p \in Targets }

DoListMetadata ==
    /\ CanCall
    /\ \E path \in AllSpellings, observe \in BOOLEAN :
           \E f \in Faults(ListMetadata(cache, srv, path, 0)) :
               Record("ListMetadata", path, Root, FALSE,
                      ListMetadata(cache, srv, path, f), observe)

DoListFileACLs ==
    /\ CanCall
    /\ \E p \in Targets, observe \in BOOLEAN :
           \E f \in Faults(ListFileACLs(cache, srv, p, 0)) :
               Record("ListFileACLs", p, Root, FALSE, ListFileACLs(cache, srv, p, f), observe)

DoListDirACLs ==
    /\ CanCall
    /\ \E p \in Targets, observe \in BOOLEAN :
           \E f \in Faults(ListDirACLs(cache, srv, p, 0)) :
               Record("ListDirACLs", p, Root, FALSE, ListDirACLs(cache, srv, p, f), observe)

DoTruncateFile ==
    /\ CanCall
    /\ \E p \in Targets, f \in 0..1, observe \in BOOLEAN :
           Record("TruncateFile", p, Root, FALSE, TruncateFile(cache, srv, p, 0, f), observe)

DoReplicateFile ==
    /\ CanCall
    /\ \E p \in Targets, f \in 0..1, observe \in BOOLEAN :
           Record("ReplicateFile", p, Root, FALSE, ReplicateFile(cache, srv, p, f), observe)

Procs == 1..NProcs
Callers == (NProcs + 1)..(NProcs + NCallers)
AllProcs == Procs \cup Callers
HandleIds == 1..MaxHandles
\* xid.New(): a fresh id for every handle created
XidNew(n) == n
NoCall == [op |-> "none", path |-> Root, mode |-> "", h |-> 0, snap |-> {}, res |-> "none"]

\* the state NewFileSystem leaves behind: no connection, no handle, empty cache
InitCommon ==
    /\ cache = EmptyCache
    /\ invalidateParentEntryCacheImmediately \in BOOLEAN
    /\ nOps = 0
    /\ last = NoLast
    /\ poolConns = 0
    /\ poolBusy = 0
    /\ released = FALSE
    /\ fileHandles = [id \in HandleIds |-> 0]
    /\ handleState = [h \in HandleIds |-> "none"]
    /\ returned = {}
    /\ nextId = 1
    /\ pc = [p \in AllProcs |-> "idle"]
    /\ call = [p \in AllProcs |-> NoCall]
    /\ held = [p \in AllProcs |-> 0]

Init ==
    /\ srv \in { s \in [Paths -> {"None", "Dir", "File"}] : TreeOK(s) }
    /\ InitCommon

\* ------------------------------------------------------------ the session
\* IRODSSession.AcquireConnection hands out an idle connection or creates one
\* below ConnectionMax, waits when the pool is saturated and fails once the
\* session is released
CanAcquire == ~released /\ poolBusy < MaxConnections

AcquireConnection(p) ==
    /\ CanAcquire
    /\ poolBusy' = poolBusy + 1
    /\ poolConns' = IF poolBusy = poolConns THEN poolConns + 1 ELSE poolConns
    /\ held' = [held EXCEPT ![p] = @ + 1]
    /\ UNCHANGED released

\* IRODSSession.ReturnConnection; the connections of a released session are
\* closed already
ReturnConnection(p) ==
    /\ poolBusy' = IF released THEN poolBusy ELSE poolBusy - 1
    /\ held' = [held EXCEPT ![p] = @ - 1]
    /\ UNCHANGED << poolConns, released >>

\* a connection used for one request inside a step: acquired and returned
BorrowConnection ==
    /\ CanAcquire
    /\ poolConns' = IF poolBusy = poolConns THEN poolConns + 1 ELSE poolConns
    /\ UNCHANGED << poolBusy, released >>

\* IRODSSession.Release
SessionRelease ==
    /\ poolConns' = 0
    /\ poolBusy' = 0
    /\ released' = TRUE

\* the idle reaper closes an idle connection
Reap ==
    /\ ~released
    /\ poolConns > poolBusy
    /\ poolConns' = poolConns - 1
    /\ UNCHANGED << srv, cache, invalidateParentEntryCacheImmediately, seqVars,
                    poolBusy, released, handleVars, procVars >>

\* ------------------------------------------------- file handles, by steps
Goto(p, where) == pc' = [pc EXCEPT ![p] = where]
Finish(p, res) ==
    /\ pc' = [pc EXCEPT ![p] = "idle"]
    /\ call' = [call EXCEPT ![p].res = res]
\* the call returns to its caller
Return(p) ==
    /\ pc' = [pc EXCEPT ![p] = "idle"]
    /\ call' = [call EXCEPT ![p] = NoCall]

\* handles being created by calls in progress
Opening == { p \in Procs : pc[p] \in {"of_acquire", "of_open", "of_stat", "of_register",
                                       "cf_acquire", "cf_create", "cf_register"} }

\* types.IsFileOpenFlagOpeningExisting
IsFileOpenFlagOpeningExisting(mode) == mode \in {"r", "r+", "a", "a+"}

\* irods_fs.OpenDataObject
OpenDataObject(s, p, mode) ==
    IF s[p] = "File" THEN [res |-> "ok", s |-> s]
    ELSE IF ~IsFileOpenFlagOpeningExisting(mode) /\ s[p] = "None" /\ s[Dirname(p)] = "Dir"
    THEN [res |-> "ok", s |-> [s EXCEPT ![p] = "File"]]
    ELSE [res |-> "NotFound", s |-> s]

\* irods_fs.CreateDataObject with force
CreateDataObject(s, p) ==
    IF s[p] # "Dir" /\ s[Dirname(p)] = "Dir"
    THEN [res |-> "ok", s |-> [s EXCEPT ![p] = "File"]]
    ELSE [res |-> "ServerError", s |-> s]

\* the paths the callers open and create: a data object and a missing path
OpenPaths == {<<"a", "x">>, <<"b", "x">>}

\* a caller calls OpenFile(path, mode)
StartOpenFile(p) ==
    /\ pc[p] = "idle"
    /\ nextId + Cardinality(Opening) <= MaxHandles
    /\ \E path \in OpenPaths, mode \in {"r", "w"} :
           call' = [call EXCEPT ![p] = [NoCall EXCEPT !.op = "OpenFile", !.path = path,
                                                       !.mode = mode]]
    /\ Goto(p, "of_acquire")
    /\ UNCHANGED << srv, cache, invalidateParentEntryCacheImmediately, seqVars,
                    poolVars, handleVars, held >>

\* FileSystem.OpenFile, fs.session.AcquireConnection
OpenFile_Acquire(p) ==
    /\ pc[p] = "of_acquire"
    /\ \/ AcquireConnection(p) /\ Goto(p, "of_open") /\ UNCHANGED call
       \/ released /\ Return(p) /\ UNCHANGED << poolVars, held >>
    /\ UNCHANGED << srv, cache, invalidateParentEntryCacheImmediately, seqVars, handleVars >>

\* FileSystem.OpenFile, irods_fs.OpenDataObject, with a failure path that
\* keeps the connection
OpenFile_OpenKeepingConnection(p) ==
    /\ pc[p] = "of_open"
    /\ \E fail \in BOOLEAN :
        LET r == OpenDataObject(srv, call[p].path, call[p].mode) IN
        IF released \/ fail \/ r.res # "ok"
        THEN /\ Return(p)
             /\ UNCHANGED << srv, poolVars, held >>
        ELSE /\ srv' = r.s
             /\ Goto(p, "of_stat")
             /\ UNCHANGED << poolVars, held, call >>
    /\ UNCHANGED << cache, invalidateParentEntryCacheImmediately, seqVars, handleVars >>

\* FileSystem.OpenFile, irods_fs.OpenDataObject
OpenFile_Open(p) ==
    /\ pc[p] = "of_open"
    /\ \E fail \in BOOLEAN :
        LET r == OpenDataObject(srv, call[p].path, call[p].mode) IN
        IF released \/ fail \/ r.res # "ok"
        THEN /\ ReturnConnection(p)
             /\ Return(p)
             /\ UNCHANGED srv
        ELSE /\ srv' = r.s
             /\ Goto(p, "of_stat")
             /\ UNCHANGED << poolVars, held, call >>
    /\ UNCHANGED << cache, invalidateParentEntryCacheImmediately, seqVars, handleVars >>

\* FileSystem.OpenFile, the entry of the handle: fs.StatFile or a new Entry
OpenFile_Stat(p) ==
    /\ pc[p] = "of_stat"
    /\ IF IsFileOpenFlagOpeningExisting(call[p].mode)
       THEN \E f \in 0..2 :
            LET r == StatFile(cache, srv, call[p].path, f) IN
            IF r.acq = 0 THEN cache' = r.c /\ UNCHANGED poolVars
            ELSE IF released THEN UNCHANGED << cache, poolVars >>
            ELSE BorrowConnection /\ cache' = r.c
       ELSE UNCHANGED << cache, poolVars >>
    /\ Goto(p, "of_register")
    /\ UNCHANGED << srv, invalidateParentEntryCacheImmediately, seqVars, handleVars,
                    call, held >>

\* the new FileHandle is stored under its id; its connection stays with it
Register(p) ==
    /\ fileHandles' = [fileHandles EXCEPT ![XidNew(nextId)] = nextId]
    /\ handleState' = [handleState EXCEPT ![nextId] = "open"]
    /\ nextId' = nextId + 1
    /\ held' = [held EXCEPT ![p] = @ - 1]

\* FileSystem.OpenFile, fs.fileHandles[fileHandle.id] = fileHandle; return
OpenFile_Register(p) ==
    /\ pc[p] = "of_register"
    /\ Register(p)
    /\ returned' = returned \cup {nextId}
    /\ Return(p)
    /\ UNCHANGED << srv, cache, invalidateParentEntryCacheImmediately, seqVars, poolVars >>

\* a caller calls CreateFile(path)
StartCreateFile(p) ==
    /\ pc[p] = "idle"
    /\ nextId + Cardinality(Opening) <= MaxHandles
    /\ \E path \in OpenPaths :
           call' = [call EXCEPT ![p] = [NoCall EXCEPT !.op = "CreateFile", !.path = path,
                                                       !.mode = "w"]]
    /\ Goto(p, "cf_acquire")
    /\ UNCHANGED << srv, cache, invalidateParentEntryCacheImmediately, seqVars,
                    poolVars, handleVars, held >>

\* FileSystem.CreateFile, fs.session.AcquireConnection
CreateFile_Acquire(p) ==
    /\ pc[p] = "cf_acquire"
    /\ \/ AcquireConnection(p) /\ Goto(p, "cf_create") /\ UNCHANGED call
       \/ released /\ Return(p) /\ UNCHANGED << poolVars, held >>
    /\ UNCHANGED << srv, cache, invalidateParentEntryCacheImmediately, seqVars, handleVars >>

\* FileSystem.CreateFile, irods_fs.CreateDataObject
CreateFile_Create(p) ==
    /\ pc[p] = "cf_create"
    /\ \E fail \in BOOLEAN :
        LET r == CreateDataObject(srv, call[p].path) IN
        IF released \/ fail \/ r.res # "ok"
        THEN /\ ReturnConnection(p)
             /\ Return(p)
             /\ UNCHANGED srv
        ELSE /\ srv' = r.s
             /\ Goto(p, "cf_register")
             /\ UNCHANGED << poolVars, held, call >>
    /\ UNCHANGED << cache, invalidateParentEntryCacheImmediately, seqVars, handleVars >>

\* FileSystem.CreateFile, fs.fileHandles[fileHandle.id] = fileHandle
CreateFile_Register(p) ==
    /\ pc[p] = "cf_register"
    /\ Register(p)
    /\ call' = [call EXCEPT ![p].h = nextId]
    /\ Goto(p, "cf_invalidate")
    /\ UNCHANGED << srv, cache, invalidateParentEntryCacheImmediately, seqVars, poolVars,
                    returned >>

\* FileSystem.CreateFile, fs.invalidateCacheForFileCreate; return
CreateFile_Invalidate(p) ==
    /\ pc[p] = "cf_invalidate"
    /\ cache' = invalidateCacheForFileCreate(cache, call[p].path, imm)
    /\ returned' = returned \cup {call[p].h}
    /\ Return(p)
    /\ UNCHANGED << srv, invalidateParentEntryCacheImmediately, seqVars, poolVars,
                    fileHandles, handleState, nextId, held >>

\* the connection of a handle goes back to the pool
ReturnHandleConnection ==
    /\ poolBusy' = IF released THEN poolBusy ELSE poolBusy - 1
    /\ UNCHANGED << poolConns, released >>

\* FileHandle.Close: the handle leaves the registry ...
Close_Unregister(p) ==
    /\ pc[p] = "idle"
    /\ \E h \in returned :
        /\ handleState[h] = "open"
        /\ handleState' = [handleState EXCEPT ![h] = "closing"]
        /\ fileHandles' = [id \in HandleIds |-> IF fileHandles[id] = h THEN 0 ELSE fileHandles[id]]
        /\ call' = [call EXCEPT ![p] = [NoCall EXCEPT !.op = "Close", !.h = h]]
    /\ Goto(p, "cl_close")
    /\ UNCHANGED << srv, cache, invalidateParentEntryCacheImmediately, seqVars, poolVars,
                    returned, nextId, held >>

\* ... and then closes the object and returns its connection
Close_Close(p) ==
    /\ pc[p] = "cl_close"
    /\ handleState' = [handleState EXCEPT ![call[p].h] = "closed"]
    /\ ReturnHandleConnection
    /\ Return(p)
    /\ UNCHANGED << srv, cache, invalidateParentEntryCacheImmediately, seqVars,
                    fileHandles, returned, nextId, held >>

\* FileSystem.Release that copies the handles and leaves the registry as it is
Release_DrainKeepingRegistry(p) ==
    /\ pc[p] = "idle"
    /\ call' = [call EXCEPT ![p] = [NoCall EXCEPT !.op = "Release",
                    !.snap = { fileHandles[id] : id \in HandleIds } \ {0}]]
    /\ Goto(p, "rl_close")
    /\ UNCHANGED << srv, cache, invalidateParentEntryCacheImmediately, seqVars, poolVars,
                    handleVars, held >>

\* FileSystem.Release, the handles are copied and the registry is emptied
Release_Drain(p) ==
    /\ pc[p] = "idle"
    /\ call' = [call EXCEPT ![p] = [NoCall EXCEPT !.op = "Release",
                    !.snap = { fileHandles[id] : id \in HandleIds } \ {0}]]
    /\ fileHandles' = [id \in HandleIds |-> 0]
    /\ Goto(p, "rl_close")
    /\ UNCHANGED << srv, cache, invalidateParentEntryCacheImmediately, seqVars, poolVars,
                    handleState, returned, nextId, held >>

\* FileSystem.Release, handle.closeWithoutFSHandleManagement() of one handle
Release_Close(p) ==
    /\ pc[p] = "rl_close"
    /\ \E h \in call[p].snap :
        /\ call' = [call EXCEPT ![p].snap = @ \ {h}]
        /\ IF handleState[h] = "open"
           THEN /\ handleState' = [handleState EXCEPT ![h] = "closed"]
                /\ ReturnHandleConnection
           ELSE UNCHANGED << handleState, poolVars >>
    /\ UNCHANGED << srv, cache, invalidateParentEntryCacheImmediately, seqVars,
                    fileHandles, returned, nextId, pc, held >>

\* FileSystem.Release, fs.session.Release(); return
Release_Session(p) ==
    /\ pc[p] = "rl_close"
    /\ call[p].snap = {}
    /\ SessionRelease
    /\ Return(p)
    /\ UNCHANGED << srv, cache, invalidateParentEntryCacheImmediately, seqVars,
                    handleVars, held >>

InitHandles ==
    /\ srv = [q \in Paths |-> IF q = <<"a", "x">> THEN "File"
                              ELSE IF q = <<"b", "x">> THEN "None" ELSE "Dir"]
    /\ InitCommon

NextHandles ==
    \/ \E p \in Procs : StartOpenFile(p)
    \/ \E p \in Procs : OpenFile_Acquire(p)
    \/ \E p \in Procs : OpenFile_Open(p)
    \/ \E p \in Procs : OpenFile_Stat(p)
    \/ \E p \in Procs : OpenFile_Register(p)
    \/ \E p \in Procs : StartCreateFile(p)
    \/ \E p \in Procs : CreateFile_Acquire(p)
    \/ \E p \in Procs : CreateFile_Create(p)
    \/ \E p \in Procs : CreateFile_Register(p)
    \/ \E p \in Procs : CreateFile_Invalidate(p)
    \/ \E p \in Procs : Close_Unregister(p)
    \/ \E p \in Procs : Close_Close(p)
    \/ \E p \in Procs : Release_Drain(p)
    \/ \E p \in Procs : Release_Close(p)
    \/ \E p \in Procs : Release_Session(p)
    \/ Reap

SpecHandles == InitHandles /\ [][NextHandles]_vars

\* ------------------------------------------- concurrent List calls, by steps
\* FileSystem.List -> getCollection, the cache lookups
List_CollectionCache(p) ==
    /\ pc[p] = "ls_gc"
    /\ IF HasNegativeEntryCache(cache, call[p].path) THEN Finish(p, "NotFound")
       ELSE IF GetEntryCache(cache, call[p].path) = "Dir"
       THEN Goto(p, "ls_le") /\ UNCHANGED call
       ELSE Goto(p, "ls_gc_acquire") /\ UNCHANGED call
    /\ UNCHANGED << srv, cache, invalidateParentEntryCacheImmediately, seqVars,
                    poolVars, handleVars, held >>

\* getCollection, fs.session.AcquireConnection
List_CollectionAcquire(p) ==
    /\ pc[p] = "ls_gc_acquire"
    /\ AcquireConnection(p)
    /\ Goto(p, "ls_gc_request")
    /\ UNCHANGED << srv, cache, invalidateParentEntryCacheImmediately, seqVars,
                    handleVars, call >>

\* getCollection that keeps its connection when it returns
List_CollectionRequestKeepingConnection(p) ==
    /\ pc[p] = "ls_gc_request"
    /\ \E f \in 0..1 : \E r \in {getCollectionFetch(cache, srv, call[p].path, f)} :
        /\ cache' = r.c
        /\ IF r.res = "Dir" THEN Goto(p, "ls_le") /\ UNCHANGED call
           ELSE Finish(p, r.res)
    /\ UNCHANGED << srv, invalidateParentEntryCacheImmediately, seqVars, poolVars,
                    handleVars, held >>

\* getCollection, the request, the cache update and the deferred return
List_CollectionRequest(p) ==
    /\ pc[p] = "ls_gc_request"
    /\ \E f \in 0..1 : \E r \in {getCollectionFetch(cache, srv, call[p].path, f)} :
        /\ cache' = r.c
        /\ IF r.res = "Dir" THEN Goto(p, "ls_le") /\ UNCHANGED call
           ELSE Finish(p, r.res)
    /\ ReturnConnection(p)
    /\ UNCHANGED << srv, invalidateParentEntryCacheImmediately, seqVars, handleVars >>

\* FileSystem.List -> listEntries, the cache lookups
List_EntriesCache(p) ==
    /\ pc[p] = "ls_le"
    /\ IF UseCached(cache, call[p].path)
       THEN /\ cache' = listEntries(cache, srv, call[p].path, 0).c
            /\ Finish(p, "ok")
       ELSE Goto(p, "ls_le_acquire") /\ UNCHANGED << cache, call >>
    /\ UNCHANGED << srv, invalidateParentEntryCacheImmediately, seqVars,
                    poolVars, handleVars, held >>

\* listEntries, fs.session.AcquireConnection
List_EntriesAcquire(p) ==
    /\ pc[p] = "ls_le_acquire"
    /\ AcquireConnection(p)
    /\ Goto(p, "ls_le_request")
    /\ UNCHANGED << srv, cache, invalidateParentEntryCacheImmediately, seqVars,
                    handleVars, call >>

\* listEntries, the two queries, the cache updates and the deferred return
List_EntriesRequest(p) ==
    /\ pc[p] = "ls_le_request"
    /\ \E f \in 0..2 : \E r \in {listEntriesFetch(cache, srv, call[p].path, f)} :
        /\ cache' = r.c
        /\ Finish(p, r.res)
    /\ ReturnConnection(p)
    /\ UNCHANGED << srv, invalidateParentEntryCacheImmediately, seqVars, handleVars >>

ListStep(p) ==
    \/ List_CollectionCache(p)
    \/ List_CollectionAcquire(p)
    \/ List_CollectionRequest(p)
    \/ List_EntriesCache(p)
    \/ List_EntriesAcquire(p)
    \/ List_EntriesRequest(p)

\* the paths the concurrent callers list: a collection and a missing path
ListPaths == {<<"a">>, <<"b", "x">>}

\* NCallers callers have each called List on some path
InitList ==
    /\ srv = [q \in Paths |-> IF q = <<"a", "x">> THEN "File"
                              ELSE IF q = <<"b", "x">> THEN "None" ELSE "Dir"]
    /\ cache = EmptyCache
    /\ invalidateParentEntryCacheImmediately = FALSE
    /\ nOps = 0
    /\ last = NoLast
    /\ poolConns = 0
    /\ poolBusy = 0
    /\ released = FALSE
    /\ fileHandles = [id \in HandleIds |-> 0]
    /\ handleState = [h \in HandleIds |-> "none"]
    /\ returned = {}
    /\ nextId = 1
    /\ pc = [p \in AllProcs |-> IF p \in Callers THEN "ls_gc" ELSE "idle"]
    /\ call \in { [p \in AllProcs |-> IF p \in Callers
                                       THEN [NoCall EXCEPT !.op = "List", !.path = q[p]]
                                       ELSE NoCall] : q \in [Callers -> ListPaths] }
    /\ held = [p \in AllProcs |-> 0]

NextList ==
    \/ \E p \in Callers : List_CollectionCache(p)
    \/ \E p \in Callers : List_CollectionAcquire(p)
    \/ \E p \in Callers : List_CollectionRequest(p)
    \/ \E p \in Callers : List_EntriesCache(p)
    \/ \E p \in Callers : List_EntriesAcquire(p)
    \/ \E p \in Callers : List_EntriesRequest(p)

\* every caller that can take a step eventually takes one
SpecList == InitList /\ [][NextList]_vars /\ \A p \in Callers : WF_vars(ListStep(p))

NextRename ==
    \/ DoStat
    \/ DoList
    \/ DoRenameDir
    \/ DoRenameFile
    \/ DoRenameBack
    \/ DoCopyFile
    \/ DoCopyFileToFile
    \/ DoRenameDirToDir
    \/ DoRenameFileToFile

SpecRename == Init /\ [][NextRename]_vars

\* ---------------------------------------------------------- the transfers
\* what os.Stat finds at the local path of a transfer
LocalKinds == {"missing", "file", "dir", "error"}

\* the checks DownloadFile, DownloadFileParallel and
\* DownloadFileParallelInBlocksAsync make before the transfer starts; lines:
\* the source lines of the four failures; out: what the inner Stat returned
AfterStat(srcStat, local, lines) ==
    [srcStat EXCEPT
        !.res = IF IsErr(srcStat.res) THEN "NotFound"
                ELSE IF srcStat.res = "Dir" THEN "IsCollection"
                ELSE IF local = "error" THEN "LocalError"
                ELSE IF local = "file" THEN "Exists"
                ELSE "ok",
        !.ret = IF IsErr(srcStat.res) THEN lines[1]
                ELSE IF srcStat.res = "Dir" THEN lines[2]
                ELSE IF local = "error" THEN lines[3]
                ELSE IF local = "file" THEN lines[4]
                ELSE 0,
        !.out = <<srcStat.res>>]

\* the local path of DownloadFile and its variants
LocalDestPath == <<"dest">>

\* localFilePath as the three downloads compute it from what os.Stat found
\* at localDestPath, without the case of a directory
LocalFilePathAsGiven(local, p) == LocalDestPath

\* localFilePath as the three downloads compute it from what os.Stat found
\* at localDestPath
LocalFilePath(local, p) ==
    IF local = "dir" THEN MakeIRODSPath(LocalDestPath, FileName(p))
    ELSE LocalDestPath

\* out: what the inner Stat returned, what os.Stat found and localFilePath
DownloadPrecheck(c, s, p, local, f, lines) ==
    Only({ [pre EXCEPT !.out = <<pre.out[1], local, LocalFilePath(local, p)>>] :
           pre \in { AfterStat(srcStat, local, lines) : srcStat \in {Stat(c, s, p, f)} } })

\* irods_fs.DownloadDataObject and DownloadDataObjectParallel: the object is
\* read over a connection of the session; nothing changes on the server
DownloadDataObject(r, ret, f) ==
    [r EXCEPT !.res = IF f = r.net + 1 THEN "ServerError" ELSE "ok",
              !.ret = ret, !.acq = r.acq + 1, !.net = r.net + 1]

\* FileSystem.DownloadFile
DownloadFile(c, s, p, local, f) ==
    Only({ IF pre.res # "ok" THEN pre ELSE DownloadDataObject(pre, 786, f) :
           pre \in {DownloadPrecheck(c, s, p, local, f, <<762, 766, 775, 782>>)} })

\* FileSystem.DownloadFileParallel
DownloadFileParallel(c, s, p, local, f) ==
    Only({ IF pre.res # "ok" THEN pre ELSE DownloadDataObject(pre, 822, f) :
           pre \in {DownloadPrecheck(c, s, p, local, f, <<798, 802, 811, 818>>)} })

DoDownloadFile ==
    /\ CanCall
    /\ \E p \in Targets, local \in LocalKinds, f \in 0..3, observe \in BOOLEAN :
           Record("DownloadFile", p, Root, FALSE,
                  DownloadFile(cache, srv, p, local, f), observe)

DoDownloadFileParallel ==
    /\ CanCall
    /\ \E p \in Targets, local \in LocalKinds, f \in 0..3, observe \in BOOLEAN :
           Record("DownloadFileParallel", p, Root, FALSE,
                  DownloadFileParallel(cache, srv, p, local, f), observe)

\* the channels of an asynchronous transfer: make(chan T, ChanCap)
ChanCap == 1
MakeChan == [buf |-> <<>>, closed |-> FALSE]
CanSend(ch) == ~ch.closed /\ Len(ch.buf) < ChanCap
Send(ch, v) == [ch EXCEPT !.buf = Append(@, v)]
Close(ch) == [ch EXCEPT !.closed = TRUE]
Closed(ch) == ch.closed

\* the blocks a transfer is cut into and the running totals it reports
Blocks == 1..MaxBlocks

\* the name of the local file of an upload
LocalFileName == "x"

\* a pre-check of an asynchronous transfer failed and every caller gets
\* `errChan <- err; close(outputChan); close(errChan); return`, with both
\* channels just made; blocked: the send found no room in the channel
RejectTransferLeavingOpen(op, p, err) ==
    [op |-> op, path |-> p, rejected |-> TRUE, engine |-> "none",
     blocked |-> ~CanSend(MakeChan),
     outputChan |-> MakeChan,
     errChan |-> Close(Send(MakeChan, err)),
     sent |-> 0, log |-> <<"sendE">>, err |-> err, stat |-> "none"]

RejectTransfer(op, p, err) ==
    [op |-> op, path |-> p, rejected |-> TRUE, engine |-> "none",
     blocked |-> ~CanSend(MakeChan),
     outputChan |-> Close(MakeChan),
     errChan |-> Close(Send(MakeChan, err)),
     sent |-> 0, log |-> <<"sendE">>, err |-> err, stat |-> "none"]

\* irods_fs.DownloadDataObjectParallelInBlocksAsync and
\* UploadDataObjectParallelInBlockAsync start the transfer and return its two
\* channels at once; stat: what the Stat of the pre-checks returned
StartTransfer(op, p) ==
    [op |-> op, path |-> p, rejected |-> FALSE, engine |-> "running",
     blocked |-> FALSE,
     outputChan |-> MakeChan,
     errChan |-> MakeChan,
     sent |-> 0, log |-> <<>>, err |-> "none", stat |-> "none"]

\* the checks UploadFileParallelInBlocksAsync makes before the transfer
\* starts; out: the path of the data object to write
UploadPrecheck(c, s, p, local, f) ==
    IF local = "missing" THEN Result(c, s, "NotFound", 985, 0, 0)
    ELSE IF local = "error" THEN Result(c, s, "LocalError", 991, 0, 0)
    ELSE IF local = "dir" THEN Result(c, s, "NotFound", 998, 0, 0)
    ELSE Only({ IF destStat.res = "ServerError" THEN [destStat EXCEPT !.ret = 1007]
                ELSE [destStat EXCEPT !.res = "ok", !.ret = 0,
                                      !.out = <<IF destStat.res = "Dir"
                                                THEN MakeIRODSPath(p, LocalFileName)
                                                ELSE p>>] :
                destStat \in {Stat(c, s, p, f)} })

\* FileSystem.DownloadFileParallelInBlocksAsync
DownloadFileParallelInBlocksAsync(p) ==
    /\ pc[p] = "idle"
    /\ \E path \in Targets, local \in LocalKinds, f \in 0..2 :
           \E pre \in {DownloadPrecheck(cache, srv, path, local, f, <<840, 847, 859, 869>>)} :
           /\ cache' = pre.c
           /\ call' = [call EXCEPT ![p] =
                          [IF pre.res # "ok"
                           THEN RejectTransfer("download", path, pre.res)
                           ELSE StartTransfer("download", path)
                           EXCEPT !.stat = pre.out[1]]
                          @@ [local |-> pre.out[2], localFilePath |-> pre.out[3]]]
    /\ pc' = [pc EXCEPT ![p] = "async"]
    /\ UNCHANGED << srv, invalidateParentEntryCacheImmediately, seqVars, poolVars,
                    handleVars, held >>

\* FileSystem.UploadFileParallelInBlocksAsync
UploadFileParallelInBlocksAsync(p) ==
    /\ pc[p] = "idle"
    /\ \E path \in Targets, local \in LocalKinds, f \in 0..2 :
           \E pre \in {UploadPrecheck(cache, srv, path, local, f)} :
           IF pre.res # "ok"
           THEN /\ cache' = pre.c
                /\ call' = [call EXCEPT ![p] = RejectTransfer("upload", path, pre.res)]
           ELSE /\ cache' = invalidateCacheForFileCreate(pre.c, pre.out[1], imm)
                /\ call' = [call EXCEPT ![p] = StartTransfer("upload", pre.out[1])]
    /\ pc' = [pc EXCEPT ![p] = "async"]
    /\ UNCHANGED << srv, invalidateParentEntryCacheImmediately, seqVars, poolVars,
                    handleVars, held >>

\* the transfer reports the running total after a block
Engine_Progress(p) ==
    /\ pc[p] = "async"
    /\ call[p].engine = "running"
    /\ call[p].sent < MaxBlocks
    /\ CanSend(call[p].outputChan)
    /\ call' = [call EXCEPT ![p].outputChan = Send(@, call[p].sent + 1),
                            ![p].sent = @ + 1,
                            ![p].log = Append(@, "sendP")]
    /\ UNCHANGED << srv, cache, invalidateParentEntryCacheImmediately, seqVars,
                    poolVars, handleVars, pc, held >>

\* the transfer fails: one error, then both channels are closed
Engine_Fail(p) ==
    /\ pc[p] = "async"
    /\ call[p].engine = "running"
    /\ CanSend(call[p].errChan)
    /\ call' = [call EXCEPT ![p].errChan = Close(Send(@, "ServerError")),
                            ![p].outputChan = Close(@),
                            ![p].engine = "stopped",
                            ![p].log = Append(@, "sendE")]
    /\ UNCHANGED << srv, cache, invalidateParentEntryCacheImmediately, seqVars,
                    poolVars, handleVars, pc, held >>

\* the last block is through: both channels are closed; an upload has
\* written its data object
Engine_Finish(p) ==
    /\ pc[p] = "async"
    /\ call[p].engine = "running"
    /\ call[p].sent = MaxBlocks
    /\ call' = [call EXCEPT ![p].errChan = Close(@),
                            ![p].outputChan = Close(@),
                            ![p].engine = "stopped"]
    /\ srv' = IF call[p].op = "upload" /\ TreeOK([srv EXCEPT ![call[p].path] = "File"])
              THEN [srv EXCEPT ![call[p].path] = "File"] ELSE srv
    /\ UNCHANGED << cache, invalidateParentEntryCacheImmediately, seqVars,
                    poolVars, handleVars, pc, held >>

\* the caller of an asynchronous transfer takes a value off a channel
Receive_Progress(p) ==
    /\ pc[p] = "async"
    /\ call[p].outputChan.buf # <<>>
    /\ call' = [call EXCEPT ![p].outputChan.buf = Tail(@),
                            ![p].log = Append(@, "recvP")]
    /\ UNCHANGED << srv, cache, invalidateParentEntryCacheImmediately, seqVars,
                    poolVars, handleVars, pc, held >>

Receive_Error(p) ==
    /\ pc[p] = "async"
    /\ call[p].errChan.buf # <<>>
    /\ call' = [call EXCEPT ![p].errChan.buf = Tail(@),
                            ![p].log = Append(@, "recvE")]
    /\ UNCHANGED << srv, cache, invalidateParentEntryCacheImmediately, seqVars,
                    poolVars, handleVars, pc, held >>

EngineStep(p) == Engine_Progress(p) \/ Engine_Fail(p) \/ Engine_Finish(p)
ReceiveStep(p) == Receive_Progress(p) \/ Receive_Error(p)

\* the callers of the asynchronous transfers
TransferProcs == 1..NTransfers

InitTransfer ==
    /\ srv = [q \in Paths |-> IF q = <<"a", "x">> THEN "File"
                              ELSE IF q = <<"b", "x">> THEN "None" ELSE "Dir"]
    /\ InitCommon

\* the downloads, one after the other
NextDownload ==
    \/ DoStat
    \/ DoDownloadFile
    \/ DoDownloadFileParallel
    \/ \E p \in TransferProcs : DownloadFileParallelInBlocksAsync(p)

SpecDownload == InitTransfer /\ [][NextDownload]_vars

NextTransfer ==
    \/ \E p \in TransferProcs : DownloadFileParallelInBlocksAsync(p)
    \/ \E p \in TransferProcs : UploadFileParallelInBlocksAsync(p)
    \/ \E p \in TransferProcs : Engine_Progress(p)
    \/ \E p \in TransferProcs : Engine_Fail(p)
    \/ \E p \in TransferProcs : Engine_Finish(p)
    \/ \E p \in TransferProcs : Receive_Progress(p)
    \/ \E p \in TransferProcs : Receive_Error(p)

\* a running transfer goes on, and the caller reads both channels until they
\* are closed
SpecTransfer ==
    /\ InitTransfer
    /\ [][NextTransfer]_vars
    /\ \A p \in TransferProcs : WF_vars(EngineStep(p)) /\ WF_vars(ReceiveStep(p))

\* ------------------------------------------------ paths as the caller spells them
\* paths with a ".." component
DotDotPaths == {<<"a", "..", "b">>, <<"b", "x", "..">>, <<"a", "..", "b", "x">>,
                <<"b", "..", "a">>}
HasDotDot(path) == \E i \in DOMAIN path : path[i] = ".."

\* FileSystem.Stat, from its first line: the path is corrected, then looked up
StatPath(c, s, path, f) == Stat(c, s, GetCorrectIRODSPath(path), f)

\* FileSystem.MakeDir, from its first line
MakeDirPath(c, s, path, recurse, immediately, f) ==
    MakeDir(c, s, GetCorrectIRODSPath(path), recurse, immediately, f)

DoStatPath ==
    /\ CanCall
    /\ \E path \in DotDotPaths, observe \in BOOLEAN :
           \E f \in Faults(StatPath(cache, srv, path, 0)) :
               Record("Stat", path, GetCorrectIRODSPath(path), FALSE,
                      StatPath(cache, srv, path, f), observe)

DoMakeDirPath ==
    /\ CanCall
    /\ \E path \in DotDotPaths, recurse \in BOOLEAN, f \in 0..1, observe \in BOOLEAN :
           Record("MakeDir", path, GetCorrectIRODSPath(path), recurse,
                  MakeDirPath(cache, srv, path, recurse, imm, f), observe)

NextPaths ==
    \/ DoStat
    \/ DoMakeDir
    \/ DoStatPath
    \/ DoMakeDirPath

SpecPaths == Init /\ [][NextPaths]_vars

\* ----------------------------------------------------- Exists: actions
ExistsOps == {"Exists", "ExistsDir", "ExistsFile"}

DoExists ==
    /\ CanCall
    /\ \E p \in Targets, f \in 0..3, observe \in BOOLEAN :
           Record("Exists", p, Root, FALSE, Exists(cache, srv, p, f), observe)

DoExistsDir ==
    /\ CanCall
    /\ \E p \in Targets, f \in 0..1, observe \in BOOLEAN :
           Record("ExistsDir", p, Root, FALSE, ExistsDir(cache, srv, p, f), observe)

DoExistsFile ==
    /\ CanCall
    /\ \E p \in Targets, f \in 0..2, observe \in BOOLEAN :
           Record("ExistsFile", p, Root, FALSE, ExistsFile(cache, srv, p, f), observe)

NextExists ==
    \/ DoStat
    \/ DoExists
    \/ DoExistsDir
    \/ DoExistsFile

SpecExists == Init /\ [][NextExists]_vars

\* ------------------------------------------------------ users and groups
\* names are strings, written as sequences of characters
UserNames == {<<"u">>, <<"u", "|", "|", "o">>}
GroupNames == {<<"g">>}
\* the access levels a catalogue knows: own, read
AccessLevels == {<<"o">>, <<"r">>}
\* types.IRODSAccess, without the path
Accesses ==
    [userName : UserNames, userType : {"rodsuser"}, accessLevel : AccessLevels]
        \cup [userName : GroupNames, userType : {"rodsgroup"}, accessLevel : AccessLevels]
\* the rows of one ACL query, and who is in which group
AccessLists == UNION { [1..n -> Accesses] : n \in 0..MaxACLs }
Memberships == [GroupNames -> {{}, {<<"u">>}, UserNames}]

\* FileSystem.ListGroupUsers
ListGroupUsers(c, s, group, f) ==
    IF group \in c.groupUsers THEN Result(c, s, "ok", 118, 0, 0)
    ELSE IF f = 1 THEN Result(c, s, "ServerError", 130, 1, 1)
    ELSE Result([c EXCEPT !.groupUsers = @ \cup {group}], s, "ok", 136, 1, 1)

\* fmt.Sprintf("%s||%s", userName, accessLevel), keyed by the name alone
AccessKeyByName(userName, accessLevel) == userName

\* fmt.Sprintf("%s||%s", userName, accessLevel)
AccessKey(userName, accessLevel) == userName \o <<"|", "|">> \o accessLevel

\* newAccessesMap[key] = access
MapPut(m, key, access) ==
    { e \in m : e.key # key } \cup {[key |-> key, access |-> access]}

\* the loop over the users of a group
RECURSIVE PutUsers(_, _, _)
PutUsers(m, users, accessLevel) ==
    IF users = {} THEN m
    ELSE LET user == CHOOSE u \in users : TRUE
             userAccess == [userName |-> user, userType |-> "rodsuser",
                            accessLevel |-> accessLevel]
         IN PutUsers(MapPut(m, AccessKey(user, accessLevel), userAccess),
                     users \ {user}, accessLevel)

\* the loop over the accesses of ListDirACLsWithGroupUsers and
\* ListFileACLsWithGroupUsers; st: the result so far, out: newAccessesMap
RECURSIVE ExpandGroupUsers(_, _, _, _, _)
ExpandGroupUsers(st, accesses, members, f, lines) ==
    IF accesses = <<>> THEN [st EXCEPT !.ret = lines[2]]
    ELSE LET access == Head(accesses) IN
        IF access.userType = "rodsgroup"
        THEN Only({ IF users.res # "ok"
                    THEN [st EXCEPT !.c = users.c, !.res = users.res, !.ret = lines[1],
                                    !.acq = @ + users.acq, !.net = @ + users.net,
                                    !.out = <<{}>>]
                    ELSE ExpandGroupUsers(
                             [st EXCEPT !.c = users.c,
                                        !.acq = @ + users.acq, !.net = @ + users.net,
                                        !.out = <<PutUsers(st.out[1], members[access.userName],
                                                           access.accessLevel)>>],
                             Tail(accesses), members, f, lines) :
                    users \in {ListGroupUsers(st.c, st.s, access.userName, f - st.net)} })
        ELSE ExpandGroupUsers(
                 [st EXCEPT !.out = <<MapPut(st.out[1],
                                             AccessKey(access.userName, access.accessLevel),
                                             access)>>],
                 Tail(accesses), members, f, lines)

\* FileSystem.ListDirACLsWithGroupUsers; accesses: what ListDirACLs returns
ListDirACLsWithGroupUsers(c, s, p, accesses, members, f) ==
    Only({ IF r.res # "ok" THEN [r EXCEPT !.ret = 408, !.out = <<{}>>]
           ELSE ExpandGroupUsers([r EXCEPT !.out = <<{}>>], accesses, members, f,
                                 <<419, 443>>) :
           r \in {ListDirACLs(c, s, p, f)} })

\* FileSystem.ListFileACLsWithGroupUsers
ListFileACLsWithGroupUsers(c, s, p, accesses, members, f) ==
    Only({ IF r.res # "ok" THEN [r EXCEPT !.ret = 484, !.out = <<{}>>]
           ELSE ExpandGroupUsers([r EXCEPT !.out = <<{}>>], accesses, members, f,
                                 <<495, 519>>) :
           r \in {ListFileACLs(c, s, p, f)} })

\* the call is recorded with the rows and the memberships it was given
WithInputs(r, accesses, members) ==
    [r EXCEPT !.out = <<r.out[1], accesses, members>>]

DoListGroupUsers ==
    /\ CanCall
    /\ \E group \in GroupNames, f \in 0..1 :
           Record("ListGroupUsers", Root, Root, FALSE,
                  ListGroupUsers(cache, srv, group, f), FALSE)

DoListDirACLsWithGroupUsers ==
    /\ CanCall
    /\ \E p \in {<<"a">>}, accesses \in AccessLists,
          members \in Memberships, f \in 0..3, observe \in BOOLEAN :
           Record("ListDirACLsWithGroupUsers", p, Root, FALSE,
                  WithInputs(ListDirACLsWithGroupUsers(cache, srv, p, accesses, members, f),
                             accesses, members),
                  observe)

DoListFileACLsWithGroupUsers ==
    /\ CanCall
    /\ \E p \in {<<"a", "x">>}, accesses \in AccessLists,
          members \in Memberships, f \in 0..4, observe \in BOOLEAN :
           Record("ListFileACLsWithGroupUsers", p, Root, FALSE,
                  WithInputs(ListFileACLsWithGroupUsers(cache, srv, p, accesses, members, f),
                             accesses, members),
                  observe)

NextACLs ==
    \/ DoListGroupUsers
    \/ DoListDirACLsWithGroupUsers
    \/ DoListFileACLsWithGroupUsers

SpecACLs == InitTransfer /\ [][NextACLs]_vars

\* FileSystem.AddMetadata and FileSystem.DeleteMetadata, which differ in the
\* request they send; lines: the source lines of their three returns; out:
\* the request the call dispatched to
MutateMetadata(c, s, p, f, lines) ==
    Only({ IF e.res
           THEN IF f = e.net + 1
                THEN [e EXCEPT !.res = "ServerError", !.ret = lines[1],
                               !.acq = @ + 1, !.net = @ + 1, !.out = <<"collection">>]
                ELSE IF CollectionQuery(s, p) # "ok"
                THEN [e EXCEPT !.res = CollectionQuery(s, p), !.ret = lines[1],
                               !.acq = @ + 1, !.net = @ + 1, !.out = <<"collection">>]
                ELSE [e EXCEPT !.c = RemoveMetadataCache(e.c, p), !.res = "ok",
                               !.ret = lines[3],
                               !.acq = @ + 1, !.net = @ + 1, !.out = <<"collection">>]
           ELSE IF f = e.net + 1
                THEN [e EXCEPT !.res = "ServerError", !.ret = lines[2],
                               !.acq = @ + 1, !.net = @ + 1, !.out = <<"dataobject">>]
                ELSE IF DataObjectQuery(s, p) # "ok"
                THEN [e EXCEPT !.res = DataObjectQuery(s, p), !.ret = lines[2],
                               !.acq = @ + 1, !.net = @ + 1, !.out = <<"dataobject">>]
                ELSE [e EXCEPT !.c = RemoveMetadataCache(e.c, p), !.res = "ok",
                               !.ret = lines[3],
                               !.acq = @ + 1, !.net = @ + 1, !.out = <<"dataobject">>] :
           e \in {ExistsDir(c, s, p, f)} })

\* FileSystem.AddMetadata
AddMetadata(c, s, p, f) == MutateMetadata(c, s, p, f, <<1480, 1485, 1490>>)
\* FileSystem.DeleteMetadata
DeleteMetadata(c, s, p, f) == MutateMetadata(c, s, p, f, <<1512, 1517, 1522>>)

DoAddMetadata ==
    /\ CanCall
    /\ \E p \in Targets, f \in 0..2, observe \in BOOLEAN :
           Record("AddMetadata", p, Root, FALSE, AddMetadata(cache, srv, p, f), observe)

DoDeleteMetadata ==
    /\ CanCall
    /\ \E p \in Targets, f \in 0..2, observe \in BOOLEAN :
           Record("DeleteMetadata", p, Root, FALSE, DeleteMetadata(cache, srv, p, f), observe)

NextMetadata ==
    \/ DoStat
    \/ DoListMetadata
    \/ DoAddMetadata
    \/ DoDeleteMetadata

SpecMetadata == Init /\ [][NextMetadata]_vars

\* FileSystem.ListGroups
ListGroups(c, s, f) ==
    IF c.groups THEN Result(c, s, "ok", 144, 0, 0)
    ELSE IF f = 1 THEN Result(c, s, "ServerError", 156, 1, 1)
    ELSE Result([c EXCEPT !.groups = TRUE], s, "ok", 162, 1, 1)

\* FileSystem.ListUsers
ListUsers(c, s, f) ==
    IF c.users THEN Result(c, s, "ok", 206, 0, 0)
    ELSE IF f = 1 THEN Result(c, s, "ServerError", 218, 1, 1)
    ELSE Result([c EXCEPT !.users = TRUE], s, "ok", 224, 1, 1)

\* FileSystem.ListUserGroups; n: the groups the user belongs to, each of them
\* fetched with a request of its own
ListUserGroups(c, s, user, n, f) ==
    IF user \in c.userGroups THEN Result(c, s, "ok", 170, 0, 0)
    ELSE IF f = 1 THEN Result(c, s, "ServerError", 182, 1, 1)
    ELSE IF f \in 2..(n + 1) THEN Result(c, s, "ServerError", 189, 1, f)
    ELSE Result([c EXCEPT !.userGroups = @ \cup {user}], s, "ok", 198, 1, n + 1)

\* FileSystem.ClearCache
ClearCache(c) ==
    [c EXCEPT !.dacl = {},
              !.facl = {},
              !.meta = {},
              !.entry = [p \in Paths |-> NoEntry],
              !.neg = {},
              !.dir = [p \in Paths |-> NilDir]]

DoListGroups ==
    /\ CanCall
    /\ \E f \in 0..1 :
           Record("ListGroups", Root, Root, FALSE, ListGroups(cache, srv, f), FALSE)

DoListUsers ==
    /\ CanCall
    /\ \E f \in 0..1 :
           Record("ListUsers", Root, Root, FALSE, ListUsers(cache, srv, f), FALSE)

DoListUserGroups ==
    /\ CanCall
    /\ \E user \in UserNames, n \in 0..1, f \in 0..2 :
           Record("ListUserGroups", Root, Root, FALSE,
                  ListUserGroups(cache, srv, user, n, f), FALSE)

DoClearCache ==
    /\ CanCall
    /\ Record("ClearCache", Root, Root, FALSE,
              Result(ClearCache(cache), srv, "ok", 1144, 0, 0), TRUE)

NextClear ==
    \/ DoStat
    \/ DoList
    \/ DoListMetadata
    \/ DoListDirACLs
    \/ DoListFileACLs
    \/ DoListGroups
    \/ DoListUsers
    \/ DoListGroupUsers
    \/ DoListUserGroups
    \/ DoClearCache

SpecClear == InitTransfer /\ [][NextClear]_vars

\* ------------------------------------------------------------ truncation
Sizes == {-2, -1, 0, 1, 2}

WithSize(r, size) == [r EXCEPT !.out = <<size>> \o r.out]

DoTruncateFileSize ==
    /\ CanCall
    /\ \E p \in Targets, size \in Sizes, f \in 0..1, observe \in BOOLEAN :
           Record("TruncateFile", p, Root, FALSE,
                  WithSize(TruncateFile(cache, srv, p, size, f), size), observe)

NextTruncate ==
    \/ DoStat
    \/ DoTruncateFileSize

SpecTruncate == InitTransfer /\ [][NextTruncate]_vars

\* ---------------------------------------- borrowed connections, by steps
\* the operations that acquire a connection and look up a collection or an
\* entry while they hold it
BorrowOps == {"ListFileACLs", "ListMetadata", "AddMetadata", "DeleteMetadata"}
BorrowPaths == {<<"a", "x">>}

\* the answer is in the cache: the call returns without a connection
Cached(op, c, path) ==
    \/ op = "ListFileACLs" /\ GetFileACLsCache(c, path)
    \/ op = "ListMetadata" /\ GetMetadataCache(c, path)

\* the call from the place where it holds its connection
Retrieve(op, c, s, path, f) ==
    IF op = "ListFileACLs" THEN ListFileACLsRetrieve(c, s, path, f)
    ELSE IF op = "ListMetadata" THEN ListMetadataRetrieve(c, s, path, f)
    ELSE IF op = "AddMetadata" THEN AddMetadata(c, s, path, f)
    ELSE DeleteMetadata(c, s, path, f)

\* a caller calls one of the operations; the cache is looked at first
StartBorrow(p) ==
    /\ pc[p] = "idle"
    /\ \E op \in BorrowOps, path \in BorrowPaths :
        /\ ~Cached(op, cache, path)
        /\ call' = [call EXCEPT ![p] = [NoCall EXCEPT !.op = op, !.path = path]]
    /\ Goto(p, "bo_acquire")
    /\ UNCHANGED << srv, cache, invalidateParentEntryCacheImmediately, seqVars,
                    poolVars, handleVars, held >>

\* conn, err := fs.session.AcquireConnection(); defer ReturnConnection(conn)
Borrow_Acquire(p) ==
    /\ pc[p] = "bo_acquire"
    /\ \/ AcquireConnection(p) /\ Goto(p, "bo_body") /\ UNCHANGED call
       \/ released /\ Return(p) /\ UNCHANGED << poolVars, held >>
    /\ UNCHANGED << srv, cache, invalidateParentEntryCacheImmediately, seqVars, handleVars >>

\* the lookup inside the call (getCollection, ExistsDir) asks the pool for a
\* connection of its own unless the cache answers it
NeedsSecond(p) ==
    \/ /\ pc[p] = "bo_body"
       /\ Retrieve(call[p].op, cache, srv, call[p].path, 0).acq > 1
    \/ /\ pc[p] = "of_stat"
       /\ IsFileOpenFlagOpeningExisting(call[p].mode)
       /\ StatFile(cache, srv, call[p].path, 0).acq > 0

\* the body of the call: the lookup and the request on the held connection
Borrow_Body(p) ==
    /\ pc[p] = "bo_body"
    /\ \E f \in 0..2 :
        \E r \in {Retrieve(call[p].op, cache, srv, call[p].path, f)} :
            /\ IF released THEN UNCHANGED << cache, poolVars >>
               ELSE IF r.acq > 1 THEN BorrowConnection /\ cache' = r.c
               ELSE cache' = r.c /\ UNCHANGED poolVars
    /\ Goto(p, "bo_return")
    /\ UNCHANGED << srv, invalidateParentEntryCacheImmediately, seqVars, handleVars,
                    call, held >>

\* the deferred fs.session.ReturnConnection(conn); return
Borrow_Return(p) ==
    /\ pc[p] = "bo_return"
    /\ ReturnConnection(p)
    /\ Return(p)
    /\ UNCHANGED << srv, cache, invalidateParentEntryCacheImmediately, seqVars, handleVars >>

NextPool ==
    \/ \E p \in Procs : StartOpenFile(p)
    \/ \E p \in Procs : OpenFile_Acquire(p)
    \/ \E p \in Procs : OpenFile_Open(p)
    \/ \E p \in Procs : OpenFile_Stat(p)
    \/ \E p \in Procs : OpenFile_Register(p)
    \/ \E p \in Procs : StartCreateFile(p)
    \/ \E p \in Procs : CreateFile_Acquire(p)
    \/ \E p \in Procs : CreateFile_Create(p)
    \/ \E p \in Procs : CreateFile_Register(p)
    \/ \E p \in Procs : CreateFile_Invalidate(p)
    \/ \E p \in Procs : Close_Unregister(p)
    \/ \E p \in Procs : Close_Close(p)
    \/ \E p \in Procs : Release_Drain(p)
    \/ \E p \in Procs : Release_Close(p)
    \/ \E p \in Procs : Release_Session(p)
    \/ \E p \in Procs : StartBorrow(p)
    \/ \E p \in Procs : Borrow_Acquire(p)
    \/ \E p \in Procs : Borrow_Body(p)
    \/ \E p \in Procs : Borrow_Return(p)

InitPool == InitHandles /\ ~invalidateParentEntryCacheImmediately

SpecPool == InitPool /\ [][NextPool]_vars

\* --------------------------------------------- one client, nothing expires
NextChildren ==
    \/ DoStat
    \/ DoList
    \/ DoMakeDir
    \/ DoRemoveFile
    \/ DoRenameFileToFile
    \/ DoCopyFileToFile

SpecChildren == Init /\ [][NextChildren]_vars

\* ------------------------------------- Stat and RemoveFile, by steps
\* a caller calls Stat(path): the negative entry, the entry and the cached
\* listing of the parent are looked at first
StartStat(p) ==
    /\ pc[p] = "idle"
    /\ nOps < MaxOps
    /\ nOps' = nOps + 1
    /\ \E path \in OpenPaths :
        /\ call' = [call EXCEPT ![p] = [NoCall EXCEPT !.op = "Stat", !.path = path]]
        /\ IF Stat(cache, srv, path, 0).acq > 0
           THEN Goto(p, "st_dir") /\ UNCHANGED cache
           ELSE UNCHANGED pc /\ cache' = Stat(cache, srv, path, 0).c
    /\ UNCHANGED << srv, invalidateParentEntryCacheImmediately, last, poolVars,
                    handleVars, held >>

\* FileSystem.Stat, fs.StatDir; then fs.StatFile up to the collection of the
\* parent: getDataObject looks at the cache and calls getCollection
Stat_Dir(p) ==
    /\ pc[p] = "st_dir"
    /\ \E d \in {StatDir(cache, srv, call[p].path, 0)} :
        \E coll \in {getCollection(d.c, srv, Dirname(call[p].path), 0)} :
            /\ IF d.acq + coll.acq > 0 THEN BorrowConnection ELSE UNCHANGED poolVars
            /\ IF d.res = "Dir"
               THEN cache' = d.c /\ Return(p)
               ELSE IF HasNegativeEntryCache(d.c, call[p].path)
               THEN cache' = d.c /\ Return(p)
               ELSE IF GetEntryCache(d.c, call[p].path) = "File"
               THEN cache' = d.c /\ Return(p)
               ELSE IF coll.res # "Dir"
               THEN cache' = AddNegativeEntryCache(coll.c, call[p].path) /\ Return(p)
               ELSE cache' = coll.c /\ Goto(p, "st_acquire") /\ UNCHANGED call
    /\ UNCHANGED << srv, invalidateParentEntryCacheImmediately, seqVars,
                    handleVars, held >>

\* FileSystem.getDataObject, fs.session.AcquireConnection
Stat_Acquire(p) ==
    /\ pc[p] = "st_acquire"
    /\ AcquireConnection(p)
    /\ Goto(p, "st_request")
    /\ UNCHANGED << srv, cache, invalidateParentEntryCacheImmediately, seqVars,
                    handleVars, call >>

\* FileSystem.getDataObject, irods_fs.GetDataObjectMasterReplica
Stat_Request(p) ==
    /\ pc[p] = "st_request"
    /\ \E fail \in BOOLEAN :
        call' = [call EXCEPT ![p].res =
                    IF fail THEN "ServerError"
                    ELSE GetDataObjectMasterReplica(srv, call[p].path)]
    /\ Goto(p, "st_cache")
    /\ UNCHANGED << srv, cache, invalidateParentEntryCacheImmediately, seqVars,
                    poolVars, handleVars, held >>

\* FileSystem.getDataObject, "cache it"; FileSystem.Stat, the negative entry
\* when the object was not found; the deferred ReturnConnection
Stat_Cache(p) ==
    /\ pc[p] = "st_cache"
    /\ cache' = IF call[p].res = "File"
                THEN AddEntryCache(RemoveNegativeEntryCache(cache, call[p].path),
                                   call[p].path, "File")
                ELSE IF call[p].res = "NotFound"
                THEN AddNegativeEntryCache(cache, call[p].path)
                ELSE cache
    /\ ReturnConnection(p)
    /\ Return(p)
    /\ UNCHANGED << srv, invalidateParentEntryCacheImmediately, seqVars, handleVars >>

\* a caller calls RemoveFile(path, force); fs.session.AcquireConnection
StartRemoveFile(p) ==
    /\ pc[p] = "idle"
    /\ nOps < MaxOps
    /\ nOps' = nOps + 1
    /\ AcquireConnection(p)
    /\ \E path \in OpenPaths :
           call' = [call EXCEPT ![p] = [NoCall EXCEPT !.op = "RemoveFile", !.path = path]]
    /\ Goto(p, "rm_request")
    /\ UNCHANGED << srv, cache, invalidateParentEntryCacheImmediately, last, handleVars >>

\* FileSystem.RemoveFile, irods_fs.DeleteDataObject
RemoveFile_Request(p) ==
    /\ pc[p] = "rm_request"
    /\ \E fail \in BOOLEAN :
        \E r \in {DeleteDataObject(srv, call[p].path, TRUE)} :
            IF fail \/ r.res # "ok"
            THEN /\ ReturnConnection(p)
                 /\ Return(p)
                 /\ UNCHANGED srv
            ELSE /\ srv' = r.s
                 /\ Goto(p, "rm_invalidate")
                 /\ UNCHANGED << poolVars, held, call >>
    /\ UNCHANGED << cache, invalidateParentEntryCacheImmediately, seqVars, handleVars >>

\* FileSystem.RemoveFile, AddNegativeEntryCache and
\* invalidateCacheForFileRemove; the deferred ReturnConnection
RemoveFile_Invalidate(p) ==
    /\ pc[p] = "rm_invalidate"
    /\ cache' = invalidateCacheForFileRemove(AddNegativeEntryCache(cache, call[p].path),
                                             call[p].path, imm)
    /\ ReturnConnection(p)
    /\ Return(p)
    /\ UNCHANGED << srv, invalidateParentEntryCacheImmediately, seqVars, handleVars >>

NextRace ==
    \/ \E p \in Procs : StartStat(p)
    \/ \E p \in Procs : Stat_Dir(p)
    \/ \E p \in Procs : Stat_Acquire(p)
    \/ \E p \in Procs : Stat_Request(p)
    \/ \E p \in Procs : Stat_Cache(p)
    \/ \E p \in Procs : StartRemoveFile(p)
    \/ \E p \in Procs : RemoveFile_Request(p)
    \/ \E p \in Procs : RemoveFile_Invalidate(p)

SpecRace == InitHandles /\ [][NextRace]_vars

\* ------------------------------------------------------------ uploads
\* irods_fs.UploadDataObject, UploadDataObjectParallel: the object is written,
\* over the object that is there
UploadDataObject(s, q) ==
    IF q \in Targets /\ KindAt(s, Dirname(q)) = "Dir" /\ KindAt(s, q) # "Dir"
    THEN [res |-> "ok", s |-> [s EXCEPT ![q] = "File"]]
    ELSE [res |-> "ServerError", s |-> s]

\* what UploadFile and UploadFileParallel do after the Stat of the
\* destination; lines: the source lines of their returns; out: the path
\* written and whether a data object was there before
AfterDestStat(destStat, p, immediately, f, lines) ==
    IF destStat.res = "ServerError" THEN [destStat EXCEPT !.ret = lines[4]]
    ELSE \* the path of the data object to write
         Only({ IF f = destStat.net + 1
                THEN [destStat EXCEPT !.res = "ServerError", !.ret = lines[5],
                                      !.acq = @ + 1, !.net = @ + 1]
                ELSE Only({ IF r.res # "ok"
                            THEN [destStat EXCEPT !.res = r.res, !.ret = lines[5],
                                                  !.acq = @ + 1, !.net = @ + 1]
                            ELSE [destStat EXCEPT
                                    !.c = invalidateCacheForFileCreate(@, irodsFilePath, immediately),
                                    !.s = r.s, !.res = "ok", !.ret = lines[6],
                                    !.acq = @ + 1, !.net = @ + 1,
                                    !.out = <<irodsFilePath,
                                              KindAt(destStat.s, irodsFilePath) = "File">>] :
                            r \in {UploadDataObject(destStat.s, irodsFilePath)} }) :
                irodsFilePath \in {IF destStat.res = "Dir"
                                   THEN MakeIRODSPath(p, LocalFileName) ELSE p} })

\* the upload, from the checks of the local file on
Upload(c, s, p, local, immediately, f, lines) ==
    IF local = "missing" THEN Result(c, s, "NotFound", lines[1], 0, 0)
    ELSE IF local = "error" THEN Result(c, s, "LocalError", lines[2], 0, 0)
    ELSE IF local = "dir" THEN Result(c, s, "NotFound", lines[3], 0, 0)
    ELSE Only({ AfterDestStat(destStat, p, immediately, f, lines) :
                destStat \in {Stat(c, s, p, f)} })

\* FileSystem.UploadFile
UploadFile(c, s, p, local, immediately, f) ==
    Upload(c, s, p, local, immediately, f, <<887, 889, 893, 899, 915, 919>>)

\* FileSystem.UploadFileParallel
UploadFileParallel(c, s, p, local, immediately, f) ==
    Upload(c, s, p, local, immediately, f, <<933, 935, 939, 945, 961, 965>>)

DoUploadFile ==
    /\ CanCall
    /\ \E p \in Targets, local \in LocalKinds, f \in 0..4, observe \in BOOLEAN :
           Record("UploadFile", p, Root, FALSE,
                  UploadFile(cache, srv, p, local, imm, f), observe)

DoUploadFileParallel ==
    /\ CanCall
    /\ \E p \in Targets, local \in LocalKinds, f \in 0..4, observe \in BOOLEAN :
           Record("UploadFileParallel", p, Root, FALSE,
                  UploadFileParallel(cache, srv, p, local, imm, f), observe)

NextUpload ==
    \/ DoStat
    \/ DoUploadFile
    \/ DoUploadFileParallel
    \/ DoCopyFileToFile

SpecUpload == InitTransfer /\ [][NextUpload]_vars

\* an asynchronous upload with Stat calls made while it runs
NextAsyncUpload ==
    \/ DoStat
    \/ \E p \in TransferProcs : UploadFileParallelInBlocksAsync(p)
    \/ \E p \in TransferProcs : Engine_Progress(p)
    \/ \E p \in TransferProcs : Engine_Fail(p)
    \/ \E p \in TransferProcs : Engine_Finish(p)
    \/ \E p \in TransferProcs : Receive_Progress(p)
    \/ \E p \in TransferProcs : Receive_Error(p)

SpecAsyncUpload == InitTransfer /\ [][NextAsyncUpload]_vars

\* ------------------------------------------------------------ replicas
\* a registered data object has one replica or more on the server; the
\* replicas are numbered from 0
ReplicaCounts == 1..MaxReplicas

\* the replicas a query without the master-replica condition carries for a
\* data object of n replicas
AllReplicas(n) == [i \in 1..n |-> i - 1]

\* the replicas a master-replica query carries for a data object of n replicas
MasterReplica(n) == SubSeq(AllReplicas(n), 1, 1)

\* the data object irods_fs.GetDataObjectMasterReplica answers with; ID 0
\* stands for the FileNotFound error it answers with when no row matches
DataObjectMasterReplica(s, p, n) ==
    IF GetDataObjectMasterReplica(s, p) = "File"
    THEN [ID |-> 1, Path |-> p, Replicas |-> MasterReplica(n)]
    ELSE [ID |-> 0, Path |-> p, Replicas |-> <<>>]

\* the data objects irods_fs.ListDataObjectsMasterReplica answers with
DataObjectsMasterReplica(s, p, n) ==
    [i \in 1..Len(ListDataObjectsMasterReplica(s, p)) |->
        DataObjectMasterReplica(s, ListDataObjectsMasterReplica(s, p)[i], n)]

\* FileSystem.getDataObject, from "if dataobject.ID > 0": the Entry is built
\* from dataobject.Replicas[0]; an index past the end of the slice is a
\* run-time panic
EntryOfDataObject(dataobject) ==
    IF dataobject.ID > 0
    THEN IF Len(dataobject.Replicas) = 0 THEN "panic" ELSE "File"
    ELSE "NotFound"

\* FileSystem.listEntries, the loop over the data objects: one without a
\* replica is skipped
WithReplicas(dataobjects) ==
    SelectSeq(dataobjects, LAMBDA dataobject : Len(dataobject.Replicas) # 0)

\* FileSystem.StatFile with the data object its query returned; n: the
\* replicas the server holds of the data object
StatFileOfReplicas(c, s, p, n, f) ==
    Only({ IF r.ret = 1414
           THEN [r EXCEPT !.res = EntryOfDataObject(DataObjectMasterReplica(s, p, n)),
                          !.out = <<DataObjectMasterReplica(s, p, n)>>]
           ELSE r :
           r \in {StatFile(c, s, p, f)} })

\* FileSystem.List with the data objects its query returned
ListOfReplicas(c, s, p, n, f) ==
    Only({ IF r.ret = 1294
           THEN [r EXCEPT !.out = <<r.out, DataObjectsMasterReplica(s, p, n)>>]
           ELSE r :
           r \in {List(c, s, p, f)} })

DoStatFileOfReplicas ==
    /\ CanCall
    /\ \E p \in Targets, n \in ReplicaCounts, observe \in BOOLEAN :
           \E f \in Faults(StatFile(cache, srv, p, 0)) :
               Record("StatFile", p, Root, FALSE,
                      StatFileOfReplicas(cache, srv, p, n, f), observe)

DoListOfReplicas ==
    /\ CanCall
    /\ \E p \in Paths, n \in ReplicaCounts, observe \in BOOLEAN :
           \E f \in Faults(List(cache, srv, p, 0)) :
               Record("List", p, Root, FALSE,
                      ListOfReplicas(cache, srv, p, n, f), observe)

NextReplicas ==
    \/ DoStat
    \/ DoStatFileOfReplicas
    \/ DoListOfReplicas

SpecReplicas == Init /\ [][NextReplicas]_vars

NextInvalidate ==
    \/ DoStat
    \/ DoList
    \/ DoListMetadata
    \/ DoListFileACLs
    \/ DoListDirACLs
    \/ DoRemoveFile
    \/ DoRemoveDir
    \/ DoTruncateFile
    \/ DoReplicateFile

SpecInvalidate == Init /\ [][NextInvalidate]_vars

Next ==
    \/ DoStat
    \/ DoList
    \/ DoSearchByMeta
    \/ DoMakeDir
    \/ DoRemoveDir
    \/ DoRemoveFile
    \/ DoRenameDirToDir
    \/ DoRenameFileToFile
    \/ Expire

Spec == Init /\ [][Next]_vars

\* ------------------------------------------------------------- properties
\* the calls that renamed an object
Renamed == last.op \in {"RenameDirToDir", "RenameFileToFile"} /\ last.res = "ok"
\* the handles that are open
LiveHandles == { h \in HandleIds : handleState[h] = "open" }
\* no OpenFile, CreateFile, Close or Release call is in progress
Quiescent == \A p \in Procs : pc[p] = "idle"
\* a List call waits for a connection
Waiting(p) == pc[p] \in {"ls_gc_acquire", "ls_le_acquire"}
\* a List call has returned
ListDone(p) == pc[p] = "idle" /\ call[p].res # "none"

\* C1: when Stat(p) has returned NotFound, the next Stat(p) returns NotFound
\* and neither acquires a connection nor sends a request, whichever request
\* the server would fail
NegativeCacheIdempotence ==
    (last.op = "Stat" /\ last.res = "NotFound") =>
        \A f \in 0..2 : LET r == Stat(cache, srv, last.path, f) IN
            r.res = "NotFound" /\ r.acq = 0 /\ r.net = 0

\* a Stat asked the server, was told the path is missing, and the next Stat
\* is answered by the negative entry
NegativeCacheIdempotenceReached ==
    /\ last.op = "Stat" /\ last.ret = 285 /\ last.net > 0
    /\ Stat(cache, srv, last.path, 0).ret = 234

\* C2: when List(p) has returned its entries, Stat of each of them returns
\* that entry from the cache, without a connection or a request, whatever
\* was cached before the List
ListStatCoherence ==
    (last.op = "List" /\ last.res = "ok") =>
        \A i \in 1..Len(last.out) : \A f \in 0..2 :
            LET r == Stat(cache, srv, last.out[i].path, f) IN
            r.res = last.out[i].kind /\ r.acq = 0 /\ r.net = 0

\* a List asked the server and returned an entry that had a negative entry
\* before the call
ListStatCoherenceReached ==
    /\ last.op = "List" /\ last.ret = 1294
    /\ \E i \in 1..Len(last.out) :
        /\ last.out[i].path \in last.pre.neg
        /\ Stat(cache, srv, last.out[i].path, 0).ret = 240

\* C3: when List or SearchByMeta fails at its data-object query, after its
\* sub-collection query succeeded, the cache is as it was before the call
NoPartialCacheUpdate ==
    (last.op \in {"List", "SearchByMeta"} /\ last.ret \in {1257, 1335}) =>
        cache = last.pre

\* C4: when no call is in progress every returned handle that is open is in
\* the registry under its own id; no two open handles share an id; every
\* handle in the registry is open
HandleRegistryInvariant ==
    /\ Quiescent => \A h \in returned :
           handleState[h] = "open" => fileHandles[XidNew(h)] = h
    /\ \A h1 \in LiveHandles, h2 \in LiveHandles : XidNew(h1) = XidNew(h2) => h1 = h2
    /\ \A id \in HandleIds : fileHandles[id] # 0 => handleState[fileHandles[id]] = "open"

\* Release has returned after closing a handle that a caller held, while
\* another returned handle had been closed by its holder
HandleRegistryInvariantReached ==
    /\ Quiescent /\ released
    /\ \E h \in returned : handleState[h] = "closed"
    /\ \A id \in HandleIds : fileHandles[id] = 0

\* C5: the open handles are never more than the connections of the pool,
\* and once the session is released the registry and the pool are empty
HandleConnectionPairing ==
    /\ Cardinality(LiveHandles) <= poolConns
    /\ released => /\ \A id \in HandleIds : fileHandles[id] = 0
                   /\ poolConns = 0

\* C6: the pool never holds more than MaxConnections connections, a List
\* call never holds two, a waiting call gets its connection, and all the
\* calls return
PoolBoundUnderSaturation ==
    /\ [](/\ poolConns <= MaxConnections
          /\ poolBusy <= poolConns
          /\ \A p \in Callers : held[p] <= 1)
    /\ \A p \in Callers : Waiting(p) ~> ~Waiting(p)
    /\ <>[](\A p \in Callers : ListDone(p))

\* every connection is in use and a List call waits for one
PoolSaturated ==
    /\ poolBusy = MaxConnections
    /\ \E p \in Callers : Waiting(p)

\* C7: a Stat that finds neither a negative entry nor an entry fails with
\* NotFound, records the negative entry and acquires no connection when the
\* listing of the parent is cached and lacks the path; otherwise it acquires
\* a connection and asks the server
StatShortCircuit ==
    (last.op = "Stat" /\ last.path \notin last.pre.neg
        /\ last.pre.entry[last.path] = NoEntry) =>
        LET d == last.pre.dir[Dirname(last.path)] IN
        IF d.cached /\ ~InSeq(last.path, d.paths)
        THEN /\ last.res = "NotFound" /\ last.acq = 0 /\ last.net = 0
             /\ last.path \in cache.neg
        ELSE last.acq >= 1 /\ last.net >= 1

\* a Stat was answered from the cached listing of the parent
StatShortCircuitTaken ==
    /\ last.op = "Stat" /\ last.ret = 258 /\ last.acq = 0
    /\ last.pre.dir[Dirname(last.path)].cached
    /\ last.path \in cache.neg

\* C8: after MakeDir(p) succeeds Stat(p) returns a directory, and after
\* RemoveDir(p, recurse) succeeds Stat(p) fails with NotFound
CreateRemoveScenario ==
    /\ (last.op = "MakeDir" /\ last.res = "ok") =>
           Stat(cache, srv, last.path, 0).res = "Dir"
    /\ (last.op = "RemoveDir" /\ last.res = "ok" /\ last.flag) =>
           Stat(cache, srv, last.path, 0).res = "NotFound"

\* C9: after MakeDir(p, recurse) succeeds Stat of p and of every ancestor of
\* p returns a directory
MakeDirRecurse ==
    (last.op = "MakeDir" /\ last.res = "ok" /\ last.flag) =>
        \A q \in Prefixes(last.path) : Stat(cache, srv, q, 0).res = "Dir"

\* C10: after a rename of a to b succeeds Stat(a) fails with NotFound and
\* Stat(b) returns the kind of the object that moved
RenameThenStat ==
    Renamed => /\ Stat(cache, srv, last.path, 0).res = "NotFound"
               /\ Stat(cache, srv, last.path2, 0).res = srv[last.path2]

\* the paths of the entries a List returned
PathsOf(out) == { out[i].path : i \in 1..Len(out) }
\* a was renamed to b and b was renamed back to a, both with success
RoundTrip == last.op = "RenameRoundTrip" /\ last.res = "ok" /\ last.out = <<last.path>>

\* C11: after rename(a, b) and rename(b, a) Stat(a) returns the kind a has,
\* Stat(b) fails with NotFound, and List of the parent of a and of the
\* parent of b returns what it returned before the two renames
RenameRoundTrip ==
    RoundTrip =>
        /\ Stat(cache, srv, last.path, 0).res = (IF last.flag THEN "Dir" ELSE "File")
        /\ Stat(cache, srv, last.path2, 0).res = "NotFound"
        /\ \A parent \in {Dirname(last.path), Dirname(last.path2)} :
               LET before == List(last.pre, srv, parent, 0)
                   after == List(cache, srv, parent, 0)
               IN after.res = before.res /\ PathsOf(after.out) = PathsOf(before.out)

\* C12: RenameDir, RenameFile and CopyFile go on with dest/basename(src)
\* when dest is a directory of the catalogue and with dest otherwise
DestinationResolution ==
    \A a \in Targets, b \in Paths, f \in 0..1 :
        ResolveDest(cache, srv, a, b, f).out[1] =
            IF srv[b] = "Dir" THEN MakeIRODSPath(b, FileName(a)) ELSE b

\* the observed call created a file or a directory
Created == last.res = "ok" /\ last.op \in {"MakeDir", "CopyFile", "CopyFileToFile"}
\* the path it created
CreatedPath ==
    IF last.op = "MakeDir" THEN last.path
    ELSE IF last.op = "CopyFile" THEN last.out[1] ELSE last.path2

\* C13: a successful create at p leaves no negative entry for p, leaves no
\* entry for the parent of p when parent entries are invalidated
\* immediately, and appends p to the cached listing of the parent; a
\* listing that was not cached is not cached afterwards
CreateInvalidation ==
    Created =>
        LET parent == Dirname(CreatedPath) IN
        /\ CreatedPath \notin cache.neg
        /\ imm => cache.entry[parent] = NoEntry
        /\ IF last.pre.dir[parent].cached
           THEN cache.dir[parent] =
                    [cached |-> TRUE, paths |-> Append(last.pre.dir[parent].paths, CreatedPath)]
           ELSE ~cache.dir[parent].cached

\* the cache after a successful RemoveFile(p), but for the entry of the parent
RemoveFileEffect ==
    LET p == last.path IN
    /\ p \in cache.neg
    /\ cache.entry[p] = NoEntry
    /\ p \notin cache.facl
    /\ p \notin cache.meta
    /\ ~InSeq(p, cache.dir[Dirname(p)].paths)

\* C14 as stated: after RemoveFile(p) succeeds the negative entry of p is
\* cached, the entry, ACLs and metadata of p are not, p is not in the listing
\* of its parent and the entry of the parent is not cached; a failed
\* RemoveFile changes nothing
RemoveFileInvalidation ==
    last.op = "RemoveFile" =>
        IF last.res = "ok"
        THEN RemoveFileEffect /\ cache.entry[Dirname(last.path)] = NoEntry
        ELSE cache = last.pre

\* C14, amended: the entry of the parent is not cached when parent entries
\* are invalidated immediately, and is left as it was otherwise
RemoveFileInvalidationByFlag ==
    last.op = "RemoveFile" =>
        IF last.res = "ok"
        THEN /\ RemoveFileEffect
             /\ cache.entry[Dirname(last.path)] =
                    IF imm THEN NoEntry ELSE last.pre.entry[Dirname(last.path)]
        ELSE cache = last.pre

\* a RemoveFile succeeded on a file whose entry, metadata, parent entry and
\* place in the parent's listing were all cached
RemoveFileInvalidationReached ==
    /\ last.op = "RemoveFile" /\ last.res = "ok" /\ imm
    /\ last.pre.entry[last.path] # NoEntry
    /\ last.pre.entry[Dirname(last.path)] # NoEntry
    /\ last.path \in last.pre.meta
    /\ InSeq(last.path, last.pre.dir[Dirname(last.path)].paths)

\* C15: after RemoveDir(p, recurse) succeeds nothing is cached for p or for
\* a path under p: no entry, no ACLs, no metadata, no listing
RecursiveRemoveInvalidation ==
    (last.op = "RemoveDir" /\ last.res = "ok" /\ last.flag) =>
        \A q \in Paths : IsPrefix(last.path, q) =>
            /\ cache.entry[q] = NoEntry
            /\ q \notin cache.facl
            /\ q \notin cache.dacl
            /\ q \notin cache.meta
            /\ ~cache.dir[q].cached

\* the observed call updated the bytes of a file
Updated == last.op \in {"TruncateFile", "ReplicateFile"} /\ last.res = "ok"

\* C16: a successful TruncateFile(p) or ReplicateFile(p) leaves no entry
\* cached for p and leaves the entry and the listing of the parent, and all
\* that is cached for any other path, as they were
UpdateInvalidation ==
    Updated =>
        /\ cache.entry[last.path] = NoEntry
        /\ cache.entry[Dirname(last.path)] = last.pre.entry[Dirname(last.path)]
        /\ cache.dir[Dirname(last.path)] = last.pre.dir[Dirname(last.path)]
        /\ \A q \in Paths \ {last.path} :
            /\ cache.entry[q] = last.pre.entry[q]
            /\ cache.dir[q] = last.pre.dir[q]
            /\ (q \in cache.neg) = (q \in last.pre.neg)
            /\ (q \in cache.facl) = (q \in last.pre.facl)
            /\ (q \in cache.dacl) = (q \in last.pre.dacl)
            /\ (q \in cache.meta) = (q \in last.pre.meta)

\* a file was updated whose entry, parent entry and parent listing were cached
UpdateInvalidationReached ==
    /\ Updated
    /\ last.pre.entry[last.path] # NoEntry
    /\ last.pre.entry[Dirname(last.path)] # NoEntry
    /\ last.pre.dir[Dirname(last.path)].cached

\* the asynchronous transfers that were called
Transfers == { p \in TransferProcs : pc[p] = "async" }
Downloads == {"DownloadFile", "DownloadFileParallel"}

\* C17: when the Stat a download starts with fails with an error other than
\* NotFound, the caller of DownloadFile and DownloadFileParallel gets that
\* error and the caller of DownloadFileParallelInBlocksAsync finds it on the
\* error channel
DownloadErrorPropagation ==
    /\ (last.op \in Downloads /\ last.out[1] = "ServerError")
           => last.res = "ServerError"
    /\ \A p \in Transfers :
           (call[p].op = "download" /\ call[p].stat = "ServerError")
               => call[p].err = "ServerError"

\* how often event e is in the log of a transfer
Count(log, e) == Cardinality({ i \in DOMAIN log : log[i] = e })
BothClosed(p) ==
    p \in Transfers /\ Closed(call[p].outputChan) /\ Closed(call[p].errChan)

TransferChannelsSafe(p) ==
    LET t == call[p] IN
    /\ Count(t.log, "sendE") <= 1
    /\ Count(t.log, "sendE") = 1 => Closed(t.errChan)
    /\ \A i, j \in DOMAIN t.log :
           (i < j /\ t.log[i] = "recvE") => t.log[j] \notin {"sendP", "sendE"}
    /\ t.rejected =>
           /\ Count(t.log, "sendE") = 1
           /\ Count(t.log, "sendP") = 0
           /\ BothClosed(p)
           /\ ~t.blocked

\* C18: of an asynchronous transfer the error channel carries at most one
\* value and is closed after it, no value is sent once the caller has received
\* the error, and both channels are closed in the end; a transfer whose
\* pre-check fails returns, without blocking, two closed channels that carry
\* exactly one error and no progress value
AsyncTransferChannels ==
    /\ [](\A p \in Transfers : TransferChannelsSafe(p))
    /\ \A p \in TransferProcs : (p \in Transfers) ~> BothClosed(p)

AsyncTransferChannelsReached ==
    \E p \in Transfers :
        /\ call[p].rejected
        /\ call[p].stat \in {"Dir", "File"}
        /\ call[p].log = <<"sendE", "recvE">>

\* C19: a Stat or MakeDir called with a path that has a ".." component fails
\* with InvalidArgument, sends no request and leaves the cache as it was
DotDotRejected ==
    (last.op \in {"Stat", "MakeDir"} /\ HasDotDot(last.path))
        => /\ last.res = "InvalidArgument"
           /\ last.net = 0
           /\ cache = last.pre

\* C20: once ListMetadata has succeeded for one spelling of a path, a
\* ListMetadata with any spelling of the same path is served from the
\* Metadata cache, without a connection and without a request
MetadataSpellings ==
    (last.op = "ListMetadata" /\ last.res = "ok")
        => \A q \in Spellings(GetCorrectIRODSPath(last.path)) :
               LET r == ListMetadata(cache, srv, q, 0) IN
               r.res = "ok" /\ r.ret = 1425 /\ r.acq = 0 /\ r.net = 0

\* C21: Exists, ExistsDir and ExistsFile answer false whenever their stat
\* fails, whatever the error, and true only when it returns an entry with
\* a positive id
ExistsNeverFails ==
    last.op \in ExistsOps
        => /\ last.res \in BOOLEAN
           /\ IsErr(last.out[1]) => last.res = FALSE
           /\ last.res = TRUE
                  => last.out[1] \in {"Dir", "File"} /\ EntryID(last.path) > 0

ExistsNeverFailsReached ==
    /\ last.op \in ExistsOps
    /\ last.out[1] = "ServerError"
    /\ last.res = FALSE

\* the calls that listed ACLs with the groups expanded
Expanded ==
    /\ last.op \in {"ListDirACLsWithGroupUsers", "ListFileACLsWithGroupUsers"}
    /\ last.res = "ok"
\* the (userName, accessLevel) pairs of the ACLs returned, and of the rows
\* with every group replaced by its members
PairsReturned == { <<e.access.userName, e.access.accessLevel>> : e \in last.out[1] }
PairsExpected ==
    LET accesses == last.out[2]
        members == last.out[3]
        rows == { accesses[i] : i \in DOMAIN accesses }
    IN { <<a.userName, a.accessLevel>> : a \in { r \in rows : r.userType # "rodsgroup" } }
       \cup UNION { { <<u, a.accessLevel>> : u \in members[a.userName] } :
                    a \in { r \in rows : r.userType = "rodsgroup" } }

\* C22: the ACLs returned with the groups expanded hold no group, no two of
\* them have the same user name and access level, and their (user name,
\* access level) pairs are those of the non-group rows and of the members
\* of the group rows; a failed listing of a group's members fails the call
GroupExpansion ==
    /\ Expanded =>
           /\ \A e \in last.out[1] : e.access.userType # "rodsgroup"
           /\ Cardinality(last.out[1]) = Cardinality(PairsReturned)
           /\ PairsReturned = PairsExpected
    /\ (last.op \in {"ListDirACLsWithGroupUsers", "ListFileACLsWithGroupUsers"}
           /\ last.ret \in {419, 495})
           => last.res = "ServerError"

GroupExpansionReached ==
    /\ Expanded
    /\ \E i, j \in DOMAIN last.out[2] :
           /\ last.out[2][i].userType = "rodsgroup"
           /\ last.out[2][j].userType = "rodsuser"
           /\ last.out[2][j].userName \in last.out[3][last.out[2][i].userName]
           /\ last.out[2][j].accessLevel = last.out[2][i].accessLevel

\* C23: a successful AddMetadata or DeleteMetadata on p leaves Metadata[p]
\* uncached, so that the next ListMetadata(p) asks the server; the call sends
\* the collection request when p is a collection of the catalogue and the
\* data-object request otherwise; a failed call leaves Metadata[p] as it was
MetadataInvalidation ==
    last.op \in {"AddMetadata", "DeleteMetadata"}
        => /\ last.res = "ok"
                  => /\ ~GetMetadataCache(cache, last.path)
                     /\ ListMetadata(cache, srv, last.path, 0).net > 0
           /\ last.out[1] = IF srv[last.path] = "Dir" THEN "collection" ELSE "dataobject"
           /\ last.res # "ok"
                  => GetMetadataCache(cache, last.path) = GetMetadataCache(last.pre, last.path)

\* C24: after ClearCache a lookup misses in every namespace of the cache,
\* and the next ListGroups, ListUsers, ListGroupUsers and ListUserGroups
\* ask the server
ClearCacheClearsAll ==
    last.op = "ClearCache"
        => /\ cache = EmptyCache
           /\ ListGroups(cache, srv, 0).net > 0
           /\ ListUsers(cache, srv, 0).net > 0
           /\ \A group \in GroupNames : ListGroupUsers(cache, srv, group, 0).net > 0
           /\ \A user \in UserNames : ListUserGroups(cache, srv, user, 0, 0).net > 0

\* a step of a Release call
ReleaseStep ==
    \E p \in Procs : /\ call[p].op = "Release" \/ call'[p].op = "Release"
                     /\ pc'[p] # pc[p] \/ call'[p] # call[p]
\* a call that asks for a connection is refused and returns
Refused(p) ==
    (pc[p] \in {"of_acquire", "cf_acquire"} /\ pc'[p] # pc[p])
        => pc'[p] = "idle" /\ nextId' = nextId

\* C25: once Release has returned the session stays released with no
\* connection in the pool, every call that asks for a connection is refused
\* and fails, and a further Release changes neither the pool nor the handles
ReleaseFinal ==
    [][released => /\ released'
                   /\ poolConns' = 0 /\ poolBusy' = 0
                   /\ \A p \in Procs : Refused(p)
                   /\ ReleaseStep => UNCHANGED << fileHandles, handleState >>]_vars

\* an observed TruncateFile with its size; out is << size given, size sent >>
Truncated == last.op = "TruncateFile" /\ Len(last.out) = 2

SameAsSize(size) ==
    \E f \in 0..1 :
        \E r \in {TruncateFile(last.pre, srv, last.path, size, f)} :
            /\ r.res = last.res /\ r.ret = last.ret /\ r.c = cache
            /\ r.out = <<last.out[2]>>

\* C26: TruncateFile(p, size) with size < 0 sends the truncate request with
\* size 0 and ends as the call with size 0 ends, never with an error of its
\* own; with size >= 0 the request carries the size unchanged
NegativeSizeClamped ==
    Truncated =>
        /\ last.out[1] < 0 => last.out[2] = 0 /\ SameAsSize(0)
        /\ last.out[1] >= 0 => last.out[2] = last.out[1]
        /\ last.ret \in {727, 731}

NegativeSizeClampedReached ==
    /\ Truncated /\ last.out[1] < 0 /\ last.res = "ok"
    /\ last.out[2] = 0

\* connections out of the pool: one per caller holding one, one per handle
\* that is not closed
HandleConnections == Cardinality({ h \in HandleIds : handleState[h] \in {"open", "closing"} })
HeldConnections == Cardinality({ p \in Procs : held[p] = 1 })

\* an OpenFile or CreateFile of caller p ends with an error
FailedOpen(p) ==
    /\ pc[p] \in {"of_acquire", "of_open", "cf_acquire", "cf_create"}
    /\ pc'[p] = "idle"
\* an OpenFile or CreateFile of caller p stores its handle
Succeeded(p) == pc[p] \in {"of_register", "cf_register"} /\ pc'[p] # pc[p]

\* C27: a call that has returned holds no connection of the pool: the
\* connections that are out are those of the calls in progress and one for
\* every handle that is not closed; a successful OpenFile or CreateFile
\* leaves its one connection out of the pool with the new handle; an OpenFile
\* or CreateFile that fails returns its connection and registers no handle
ConnectionBorrowing ==
    [][/\ \A p \in Procs : held'[p] \in 0..1 /\ (pc'[p] = "idle" => held'[p] = 0)
       /\ ~released' => poolBusy' = HeldConnections' + HandleConnections'
       /\ \A p \in Procs : FailedOpen(p) =>
              /\ UNCHANGED << fileHandles, handleState, nextId >>
              /\ ~released => poolBusy' = poolBusy - held[p]
       /\ \A p \in Procs : Succeeded(p) =>
              /\ nextId' = nextId + 1
              /\ handleState'[nextId] = "open"
              /\ \E id \in HandleIds : fileHandles'[id] = nextId
              /\ poolBusy' = poolBusy /\ held[p] = 1
              /\ HandleConnections' = HandleConnections + 1]_vars

ConnectionBorrowingReached ==
    /\ Quiescent /\ ~released
    /\ poolBusy = 1 /\ HandleConnections = 1
    /\ cache.facl # {}

\* a caller that holds a connection and waits for the pool to hand it a
\* second one
WaitsHolding(p) == held[p] > 0 /\ NeedsSecond(p) /\ ~CanAcquire /\ ~released

\* C28: no call waits for a second connection of the pool while it holds
\* one: of the callers running ListFileACLs, ListMetadata, AddMetadata,
\* DeleteMetadata or OpenFile, fewer than MaxConnections hold a connection
\* and wait for the pool at the same time
NoWaitWhileHolding ==
    Cardinality({ p \in Procs : WaitsHolding(p) }) < MaxConnections

\* the cached listing of d, when there is one, holds every child d has
ListingComplete(d) ==
    GetDirCache(cache, d).cached =>
        \A q \in Children(srv, d) : InSeq(q, GetDirCache(cache, d).paths)

\* C29: with one client and no expiry a cached listing of a collection
\* holds every child the collection has on the server, so that Stat does not
\* fail with NotFound on a path that exists
DirChildrenComplete ==
    /\ \A d \in Paths : ListingComplete(d)
    /\ \A p \in Targets :
           srv[p] # "None" => Stat(cache, srv, p, 0).res # "NotFound"

\* the cache has no information on p: no negative entry, no entry, no
\* cached listing of the parent that lacks p
StatMiss(c, p) ==
    /\ ~HasNegativeEntryCache(c, p)
    /\ GetEntryCache(c, p) = NoEntry
    /\ ~(GetDirCache(c, Dirname(p)).cached /\ ~InSeq(p, GetDirCache(c, Dirname(p)).paths))

\* Stat(p) with the request f failing goes by the directory lookup d and,
\* when that fails with NotFound, by the file lookup
StatOrder(c, p, f) ==
    \E r \in {Stat(c, srv, p, f)}, d \in {StatDir(c, srv, p, f)} :
        /\ d.res = "Dir" => r.res = "Dir" /\ r.net = d.net /\ r.c = d.c
        /\ d.res = "ServerError" =>
               r.res = "ServerError" /\ r.net = d.net /\ r.c = d.c
        /\ d.res = "NotFound" =>
               \E fl \in {StatFile(d.c, srv, p, f - d.net)} :
                   /\ r.res = fl.res /\ r.net = d.net + fl.net
                   /\ HasNegativeEntryCache(r.c, p) <=> fl.res = "NotFound"
                   /\ fl.res # "NotFound" => r.c = fl.c
        /\ HasNegativeEntryCache(r.c, p) => r.res = "NotFound"

\* C30: on a cache miss Stat(p) tries the directory lookup first and the file
\* lookup only when the directory lookup fails with NotFound; it records the
\* negative entry of p only when both fail with NotFound and returns any
\* other error of a lookup without recording one
StatResolutionOrder ==
    /\ \A p \in Targets, f \in 0..3 : StatMiss(cache, p) => StatOrder(cache, p, f)
    /\ (last.op = "Stat" /\ last.ret \in {267, 270, 277, 280, 285}) =>
           /\ StatMiss(last.pre, last.path)
           /\ \A f \in 0..3 :
                  Stat(last.pre, srv, last.path, f).ret = last.ret /\
                  Stat(last.pre, srv, last.path, f).net = last.net
                      => StatOrder(last.pre, last.path, f)
           /\ HasNegativeEntryCache(cache, last.path) <=> last.ret = 285

StatResolutionOrderReached ==
    /\ last.op = "Stat" /\ last.ret = 277 /\ last.res = "ServerError"
    /\ last.net = 3
    /\ ~HasNegativeEntryCache(cache, last.path)

\* an observed List that returned entries
Listed == last.op = "List" /\ last.res = "ok"
\* the paths of the entries it returned
ListedPaths == [i \in 1..Len(last.out) |-> last.out[i].path]
\* the listing of p was cached with the entry of every child it names
ListingPopulated(c, p) ==
    /\ GetDirCache(c, p).cached
    /\ \A i \in 1..Len(GetDirCache(c, p).paths) :
           GetEntryCache(c, GetDirCache(c, p).paths[i]) # NoEntry

\* C31: List(p) returns cached entries without a query for the children
\* only if the listing of p is cached and the entry of every child it names
\* is cached, and then no returned child keeps a negative entry; otherwise
\* it asks the server for the sub-collections and the data objects, caches
\* every entry it returns and caches as the listing of p exactly the paths
\* it returns
ListUsesCompleteCache ==
    Listed =>
        /\ last.ret \in {1217, 1294}
        /\ last.ret = 1217 <=> ListingPopulated(last.pre, last.path)
        /\ last.net = 0 => last.ret = 1217
        /\ last.ret = 1217 =>
              /\ ListedPaths = GetDirCache(last.pre, last.path).paths
              /\ \A i \in 1..Len(last.out) :
                     last.out[i].kind = GetEntryCache(last.pre, last.out[i].path)
              /\ GetDirCache(cache, last.path) = GetDirCache(last.pre, last.path)
        /\ last.ret = 1294 =>
              /\ ListedPaths = ListSubCollections(srv, last.path)
                                   \o ListDataObjectsMasterReplica(srv, last.path)
              /\ GetDirCache(cache, last.path) = [cached |-> TRUE, paths |-> ListedPaths]
        /\ \A i \in 1..Len(last.out) :
              /\ ~HasNegativeEntryCache(cache, last.out[i].path)
              /\ GetEntryCache(cache, last.out[i].path) = last.out[i].kind

ListUsesCompleteCacheReached ==
    /\ Listed /\ last.ret = 1294 /\ Len(last.out) > 0
    /\ GetDirCache(last.pre, last.path).cached

\* C32: after RenameDirToDir(a, b) succeeds no negative entry is cached for b
\* or for a path under b, and Stat of every object under b finds it
NoNegativeUnderDestination ==
    (last.op = "RenameDirToDir" /\ last.res = "ok") =>
        \A q \in Paths : IsPrefix(last.path2, q) =>
            /\ ~HasNegativeEntryCache(cache, q)
            /\ srv[q] # "None" => Stat(cache, srv, q, 0).res = srv[q]

\* caller p runs Release and closes one of the handles it copied
ClosesCopied(p) == pc[p] = "rl_close" /\ pc'[p] = "rl_close" /\ call'[p] # call[p]
\* the Release of caller p returns
ReleaseReturns(p) == pc[p] = "rl_close" /\ pc'[p] = "idle"

\* the closes of Release leave the registry alone and close a handle once;
\* the session is released when every copied handle is closed
DrainsCopied ==
    \A p \in Procs :
        /\ ClosesCopied(p) =>
               /\ UNCHANGED << fileHandles, released >>
               /\ \A h \in HandleIds :
                      handleState'[h] # handleState[h] =>
                          /\ h \in call[p].snap /\ h \notin call'[p].snap
                          /\ handleState[h] = "open" /\ handleState'[h] = "closed"
        /\ ReleaseReturns(p) =>
               /\ call[p].snap = {}
               /\ released'
               /\ UNCHANGED << fileHandles, handleState >>

\* C33: Release closes every handle of the registry once, through the close
\* that leaves the registry alone, and releases the session after the last
\* of them; when it returns no handle is open and none is in the registry,
\* the handles of concurrent OpenFile and CreateFile calls included
ReleaseDrainsRegistry ==
    [][/\ DrainsCopied
       /\ \A p \in Procs : ReleaseReturns(p) =>
              /\ \A id \in HandleIds : fileHandles'[id] = 0
              /\ \A h \in HandleIds : handleState'[h] # "open"]_vars

\* the data object the catalogue held at first is removed
Removed(path) == path = <<"a", "x">> /\ srv[path] = "None"

\* C34: when a Stat(p) and a RemoveFile(p) of an existing file have both
\* returned, in whichever order their steps ran, the cache holds no entry
\* for p and holds its negative entry, and a Stat(p) fails with NotFound
PerPathSerialized ==
    \A path \in OpenPaths :
        (Quiescent /\ Removed(path)) =>
            /\ GetEntryCache(cache, path) = NoEntry
            /\ HasNegativeEntryCache(cache, path)
            /\ Stat(cache, srv, path, 0).res = "NotFound"

\* C35: whatever calls were made one after the other, no path has an entry
\* and a negative entry in the cache at the same time
EntryExcludesNegative ==
    \A p \in Paths :
        ~(GetEntryCache(cache, p) # NoEntry /\ HasNegativeEntryCache(cache, p))

\* a List has cached the entry of a child that had a negative entry
EntryExcludesNegativeReached ==
    /\ Listed /\ last.ret = 1294
    /\ \E i \in 1..Len(last.out) :
           /\ HasNegativeEntryCache(last.pre, last.out[i].path)
           /\ GetEntryCache(cache, last.out[i].path) # NoEntry
           /\ ~HasNegativeEntryCache(cache, last.out[i].path)

\* an upload or a copy has written over a data object whose entry was cached
Overwritten ==
    /\ last.res = "ok"
    /\ \/ /\ last.op \in {"UploadFile", "UploadFileParallel"}
          /\ last.out[2]
          /\ GetEntryCache(last.pre, last.out[1]) # NoEntry
       \/ /\ last.op = "CopyFileToFile"
          /\ GetEntryCache(last.pre, last.path2) = "File"
\* the path it wrote
OverwrittenPath == IF last.op = "CopyFileToFile" THEN last.path2 ELSE last.out[1]

\* C36: after UploadFile, UploadFileParallel or CopyFileToFile has written
\* over a data object whose entry was cached, the next Stat of the path does
\* not answer from the entry cached before the call: it asks the server
OverwriteFreshness ==
    Overwritten =>
        /\ GetEntryCache(cache, OverwrittenPath) = NoEntry
        /\ Stat(cache, srv, OverwrittenPath, 0).net > 0

\* no element of sq occurs twice
NoDuplicates(sq) == \A i \in 1..Len(sq), j \in 1..Len(sq) : sq[i] = sq[j] => i = j

\* C37: no cached listing of a collection names a path twice, and List of a
\* collection returns no two entries with the same path
NoDuplicateChildren ==
    /\ \A d \in Paths : NoDuplicates(GetDirCache(cache, d).paths)
    /\ \A d \in Paths : NoDuplicates(List(cache, srv, d, 0).out)

\* the upload of caller p is through: its channels are closed and no error
\* was sent
UploadDone(p) ==
    /\ p \in Transfers
    /\ call[p].op = "upload" /\ ~call[p].rejected
    /\ Closed(call[p].outputChan) /\ Closed(call[p].errChan)
    /\ ~InSeq("sendE", call[p].log)

\* C38: once the progress channel of UploadFileParallelInBlocksAsync is
\* closed without an error, Stat of the destination finds the data object,
\* whatever Stat calls ran while the transfer was in progress
AsyncUploadVisible ==
    \A p \in TransferProcs :
        UploadDone(p) => Stat(cache, srv, call[p].path, 0).res = "File"

\* the files among the entries a listing returned
FilesOf(entries) ==
    [i \in 1..Len(SelectSeq(entries, LAMBDA e : e.kind = "File")) |->
        SelectSeq(entries, LAMBDA e : e.kind = "File")[i].path]
PathsOfDataObjects(dataobjects) ==
    [i \in 1..Len(dataobjects) |-> dataobjects[i].Path]

TransferTarget(local, path, localFilePath) ==
    /\ local \in {"missing", "dir"}
    /\ local = "missing" => localFilePath = LocalDestPath
    /\ local = "dir" => localFilePath = MakeIRODSPath(LocalDestPath, FileName(path))

\* C40: DownloadFile, DownloadFileParallel and
\* DownloadFileParallelInBlocksAsync fail and start no transfer when the
\* source is a collection or the local destination is an existing regular
\* file; a transfer they start writes to destination/basename(source) when
\* the destination is an existing directory and to the destination itself
\* when it does not exist
DownloadPrechecks ==
    /\ last.op \in Downloads =>
           /\ (last.out[1] = "Dir" \/ (~IsErr(last.out[1]) /\ last.out[2] = "file")) =>
                  /\ last.res \in {"IsCollection", "Exists"}
                  /\ last.ret \in {766, 782, 802, 818}
                  /\ last.net = Stat(last.pre, srv, last.path, 0).net
           /\ last.ret \in {786, 822} =>
                  /\ last.out[1] = "File"
                  /\ TransferTarget(last.out[2], last.path, last.out[3])
    /\ \A p \in TransferProcs :
           call[p].op = "download" =>
               /\ (call[p].stat = "Dir" \/ (~IsErr(call[p].stat) /\ call[p].local = "file")) =>
                      /\ call[p].rejected /\ call[p].engine = "none"
                      /\ call[p].err \in {"IsCollection", "Exists"}
                      /\ Closed(call[p].outputChan) /\ Closed(call[p].errChan)
               /\ ~call[p].rejected =>
                      /\ call[p].stat = "File"
                      /\ TransferTarget(call[p].local, call[p].path, call[p].localFilePath)

DownloadPrechecksReached ==
    /\ last.op = "DownloadFileParallel" /\ last.ret = 822
    /\ last.out[2] = "dir" /\ last.out[3] = <<"dest", "x">>
    /\ \E p \in TransferProcs :
           /\ call[p].op = "download" /\ call[p].rejected
           /\ call[p].local = "file" /\ call[p].stat = "File"

====
